---- MODULE Spec2Model ----
(***************************************************************************)
(* A model of rabpdf (src/main.py): the batch pipeline that converts       *)
(* office documents to PDF (OfficeToPDFGUI._perform_processing with the    *)
(* two backends of OfficeToPDFConverter), the watermark compositor         *)
(* (WatermarkManager.add_watermark) and the LibreOffice installer of       *)
(* DependencyManager.                                                      *)
(*                                                                         *)
(* Lengths (page width and height, font size, text width) are Python       *)
(* floats in the source.  They are modelled as exact rationals: a length   *)
(* is an integer numerator over Unit, a text width (font size times the    *)
(* summed glyph advances) a numerator over Unit * Unit.                    *)
(***************************************************************************)
EXTENDS Integers, Sequences, FiniteSets, TLC

\* ------------------------------------------------------------- bounds
Unit == 4
MaxPages == 2
MaxCalls == 2
MaxFiles == 3
MaxUiEvents == 3
MaxInstalls == 2
MaxChecks == 2
MaxLoaded == 3
MaxOffered == 2

\* ------------------------------------------------------ input domains
\* Page sizes <<width, height>> in 1/Unit points: one with fractional
\* sides, one with whole sides.
PageSizes == { <<2 * Unit - 1, 3 * Unit - 1>>, <<3 * Unit, 2 * Unit>> }

\* Font sizes in 1/Unit points: a quarter point, one point, two points.
FontSizes == { 1, Unit, 2 * Unit }

\* Watermark texts, as sequences of glyphs.
Texts == { <<".">>, <<"W">>, <<"W", "W">> }

\* Opacity in 1/Unit (in (0,1]), rotation in degrees.
Opacities == { 1, Unit }
Rotations == { 0, 30 }

\* Python's None, among values that are records.
None == [none |-> TRUE]

\* --------------------------------------------------------------- state
VARIABLES
    fs,                    \* the file system: path -> content, for existing files
    temp_files,            \* tempfile.NamedTemporaryFile(delete=False): name -> content
    pdf_libs,              \* reportlab and PyPDF2 can be imported
    font_registered,       \* WatermarkManager.font_registered
    log,                   \* the messages the operation in progress has handed
                           \* to the log sink, in order
    wm_pc,                 \* position inside add_watermark
    wm_args,               \* its arguments
    watermark_canvas_path, \* its local of that name
    pdf_writer,            \* its local of that name: the merged pages
    wm_result,             \* its return value
    wm_calls,              \* number of calls of add_watermark so far
    wm_fs0,                \* the file system when the current call began
    wm_io_fault,           \* an I/O operation of the current call raised
    system,                \* platform.system()
    comtypes_installed,    \* import comtypes.client succeeds
    input_files,           \* OfficeToPDFGUI.input_files
    output_directory,      \* its tk variable of that name ("" when unset)
    conversion_method,     \* its tk variable of that name
    add_watermark,         \* its tk variable of that name
    watermark_text,        \* its tk variable of that name
    watermark_opacity,     \* its tk variable of that name
    watermark_size,        \* its tk variable of that name
    watermark_rotation,    \* its tk variable of that name
    watermark_history,     \* OfficeToPDFGUI.watermark_history
    settings_file,         \* the content of settings.json (None when absent)
    convert_button,        \* state of the start button: "normal" or "disabled"
    progress_running,      \* the progress bar is running
    after_queue,           \* callbacks posted with root.after(0, ...), in order
    worker,                \* the thread running _perform_processing: its
                           \* position and its locals
    calls,                 \* the backend invocations made for the file in hand
    outcomes,              \* the outcome of each file the run has dealt with
    list_touched,          \* the file list was changed while a run was active
    ui_events,             \* number of user actions handled so far
    messagebox,            \* the dialog the last user action ended in, if any
    machine,               \* platform.machine()
    lo_present,            \* an installed LibreOffice is on the disk
    mounted,               \* the volumes mounted under /Volumes/
    installs,              \* the threads running _install_libreoffice_thread:
                           \* position and locals of each
    install_lo_button,     \* state of the install button
    libreoffice_status,    \* what the status label reports
    pending_checks         \* check threads started by __init__ or the refresh
                           \* button and not yet run

wm_locals == << wm_pc, wm_args, watermark_canvas_path, pdf_writer, wm_result,
                wm_calls, wm_fs0, wm_io_fault >>

wm_env == << temp_files, pdf_libs, font_registered >>

wm_vars == << fs, log, wm_env, wm_locals >>

gui_vars == << input_files, output_directory, conversion_method, add_watermark,
               watermark_text, watermark_opacity, watermark_size,
               watermark_rotation, watermark_history, settings_file,
               convert_button, progress_running, after_queue, list_touched,
               ui_events, messagebox >>

worker_vars == << worker, calls, outcomes >>

platform_vars == << system, machine, comtypes_installed >>

install_vars == << lo_present, mounted, installs, install_lo_button,
                  libreoffice_status, pending_checks >>

vars == << wm_vars, gui_vars, worker_vars, platform_vars, install_vars >>

\* ------------------------------------------------------------- helpers
\* A path is a record [dir, stem, ext]; the stem is a sequence of parts so
\* that "<stem>_watermarked" is Append(stem, "_watermarked").
MkPath(d, s, e) == [dir |-> d, stem |-> s, ext |-> e]

Exists(files, p) == p \in DOMAIN files

WriteFile(files, p, c) == [q \in DOMAIN files \cup {p} |-> IF q = p THEN c ELSE files[q]]

RemoveFile(files, p) == [q \in DOMAIN files \ {p} |-> files[q]]

\* A PDF page: its media box <<llx, lly, urx, ury>> and the overlays merged
\* onto its content so far.
Page(w, h) == [mediabox |-> <<0, 0, w, h>>, marks |-> <<>>]

PdfDoc(pages) == [kind |-> "pdf", pages |-> pages]

\* int(): truncation of the non-negative rational n/d.
int(n, d) == n \div d

\* Glyph advance in 1/Unit em: a narrow glyph and a full-width one.
Advance(ch) == IF ch = "." THEN 1 ELSE Unit

RECURSIVE SumAdvance(_)
SumAdvance(text) ==
    IF text = <<>> THEN 0 ELSE Advance(Head(text)) + SumAdvance(Tail(text))

\* canvas.stringWidth(text, font, size): size times the summed advances, a
\* numerator over Unit * Unit.
stringWidth(text, font_size) == font_size * SumAdvance(text)

\* range(start, stop, step) for step > 0, as the sequence it yields.
RECURSIVE range(_, _, _)
range(start, stop, step) ==
    IF start < stop THEN <<start>> \o range(start + step, stop, step) ELSE <<>>

\* A column stride of three text widths rather than one and a half.
StepXDouble(text_width) == int(3 * text_width, Unit * Unit)

\* The strides of the two loops: int(text_width*1.5) and int(font_size*5).
StepX(text_width) == int(3 * text_width, 2 * Unit * Unit)
StepY(font_size) == int(5 * font_size, Unit)

\* The bound of the loops: int(page_width*2), int(page_height*2).
Bound(side) == int(2 * side, Unit)

\* The page whose media box sizes the overlay.
GeometryPage(pages) == pages[1]

\* c = canvas.Canvas(...); ...; the drawString loop; c.save(): the overlay
\* page, or None when pages[0] raises IndexError or range() raises ValueError
\* for a zero step.
RenderOverlay(pages, text, opacity, font_size, rotation) ==
    IF pages = <<>> THEN None ELSE
    LET page_width  == GeometryPage(pages).mediabox[3]
        page_height == GeometryPage(pages).mediabox[4]
        text_width  == stringWidth(text, font_size)
    IN  IF StepX(text_width) = 0 \/ (Bound(page_width) > 0 /\ StepY(font_size) = 0)
        THEN None
        ELSE [ pagesize  |-> <<page_width, page_height>>,
               alpha     |-> opacity,
               font_size |-> font_size,
               rotation  |-> rotation,
               text      |-> text,
               xs        |-> range(-Bound(page_width), Bound(page_width),
                                   StepX(text_width)),
               ys        |-> range(-Bound(page_height), Bound(page_height),
                                   StepY(font_size)) ]

\* page.merge_page(watermark_page): the page keeps its media box and gains
\* the overlay.
merge_page(page, watermark_page) ==
    [page EXCEPT !.marks = Append(@, watermark_page)]

\* for page in pdf_reader.pages: merge_page; add_page.
MergeAll(pages, watermark_page) ==
    [i \in 1..Len(pages) |-> merge_page(pages[i], watermark_page)]

\* open(pdf_path, 'rb') and PyPDF2.PdfReader(file) accept the file.
IsPdf(files, p) == IF Exists(files, p) THEN files[p].kind = "pdf" ELSE FALSE

\* A reader that takes every document to have pages.
NeverEmptyDocument(pages) == FALSE

\* if not pdf_reader.pages
IsEmptyDocument(pages) == pages = <<>>

\* ------------------------------------------- WatermarkManager.add_watermark
Log(m) == Append(log, m)

TempName(n) == [tmp |-> n]

\* The call itself: imports and the font check before the try block.  A
\* caller has put the arguments in wm_args and set wm_pc to "called".
AddWatermark_Enter ==
    /\ wm_pc = "called"
    /\ watermark_canvas_path' = None
    /\ pdf_writer' = <<>>
    /\ IF ~pdf_libs
       THEN /\ log' = Log("no_pdf_library")
            /\ wm_result' = FALSE
            /\ wm_pc' = "returned"
       ELSE IF ~font_registered
       THEN /\ log' = Log("font_not_registered")
            /\ wm_result' = FALSE
            /\ wm_pc' = "returned"
       ELSE /\ wm_pc' = "open"
            /\ UNCHANGED << log, wm_result >>
    /\ UNCHANGED << fs, temp_files, pdf_libs, font_registered, wm_args,
                    wm_calls, wm_fs0, wm_io_fault >>

\* open(pdf_path, 'rb'); PyPDF2.PdfReader(file); the empty-document test.
AddWatermark_OpenSource ==
    /\ wm_pc = "open"
    /\ \/ \* the file is missing or is no PDF: open or PdfReader raises
          /\ ~IsPdf(fs, wm_args.pdf_path)
          /\ wm_pc' = "except"
          /\ UNCHANGED << log, wm_result, wm_io_fault >>
       \/ \* reading the file fails
          /\ IsPdf(fs, wm_args.pdf_path)
          /\ wm_io_fault' = TRUE
          /\ wm_pc' = "except"
          /\ UNCHANGED << log, wm_result >>
       \/ \* if not pdf_reader.pages: return False
          /\ IsPdf(fs, wm_args.pdf_path)
          /\ IsEmptyDocument(fs[wm_args.pdf_path].pages)
          /\ log' = Log("pdf_empty")
          /\ wm_result' = FALSE
          /\ wm_pc' = "finally"
          /\ UNCHANGED wm_io_fault
       \/ /\ IsPdf(fs, wm_args.pdf_path)
          /\ ~IsEmptyDocument(fs[wm_args.pdf_path].pages)
          /\ wm_pc' = "temp"
          /\ UNCHANGED << log, wm_result, wm_io_fault >>
    /\ UNCHANGED << fs, temp_files, pdf_libs, font_registered, wm_args,
                    watermark_canvas_path, pdf_writer, wm_calls, wm_fs0 >>

\* with tempfile.NamedTemporaryFile(delete=False, suffix=".pdf") as temp_file:
\*     watermark_canvas_path = temp_file.name
AddWatermark_CreateTemp ==
    /\ wm_pc = "temp"
    /\ \/ \* the temporary file cannot be created
          /\ wm_io_fault' = TRUE
          /\ wm_pc' = "except"
          /\ UNCHANGED << temp_files, watermark_canvas_path >>
       \/ /\ temp_files' = WriteFile(temp_files, TempName(wm_calls), [kind |-> "empty"])
          /\ watermark_canvas_path' = TempName(wm_calls)
          /\ wm_pc' = "render"
          /\ UNCHANGED wm_io_fault
    /\ UNCHANGED << fs, pdf_libs, font_registered, log, wm_args, pdf_writer,
                    wm_result, wm_calls, wm_fs0 >>

\* The canvas: page size, fill colour, font, translate, rotate, stringWidth,
\* the two drawString loops and c.save().
AddWatermark_Render ==
    /\ wm_pc = "render"
    /\ LET overlay == RenderOverlay(fs[wm_args.pdf_path].pages, wm_args.watermark_text,
                                    wm_args.opacity, wm_args.font_size,
                                    wm_args.rotation)
       IN  \/ \* range() raises ValueError: a stride truncated to zero
              /\ overlay = None
              /\ wm_pc' = "except"
              /\ UNCHANGED << temp_files, wm_io_fault >>
           \/ \* c.save() cannot write the overlay file
              /\ overlay # None
              /\ wm_io_fault' = TRUE
              /\ wm_pc' = "except"
              /\ UNCHANGED temp_files
           \/ /\ overlay # None
              /\ temp_files' = WriteFile(temp_files, watermark_canvas_path, overlay)
              /\ wm_pc' = "merge"
              /\ UNCHANGED wm_io_fault
    /\ UNCHANGED << fs, pdf_libs, font_registered, log, wm_args,
                    watermark_canvas_path, pdf_writer, wm_result, wm_calls, wm_fs0 >>

\* open(watermark_canvas_path); watermark_page = PdfReader(...).pages[0];
\* the loop that merges it onto every page and adds the page to the writer.
AddWatermark_Merge ==
    /\ wm_pc = "merge"
    /\ \/ \* reading the overlay or merging a page fails
          /\ wm_io_fault' = TRUE
          /\ wm_pc' = "except"
          /\ UNCHANGED pdf_writer
       \/ /\ pdf_writer' = MergeAll(fs[wm_args.pdf_path].pages,
                                    temp_files[watermark_canvas_path])
          /\ wm_pc' = "write"
          /\ UNCHANGED wm_io_fault
    /\ UNCHANGED << fs, temp_files, pdf_libs, font_registered, log, wm_args,
                    watermark_canvas_path, wm_result, wm_calls, wm_fs0 >>

\* with open(output_path, 'wb') as output_file: pdf_writer.write(output_file)
\* and, when it succeeds, the success message and return True.
AddWatermark_Write ==
    /\ wm_pc = "write"
    /\ \/ \* open(output_path, 'wb') fails: nothing is written
          /\ wm_io_fault' = TRUE
          /\ wm_pc' = "except"
          /\ UNCHANGED << fs, log, wm_result >>
       \/ \* the file is opened (created or truncated) and the write fails
          /\ wm_io_fault' = TRUE
          /\ fs' = WriteFile(fs, wm_args.output_path, [kind |-> "partial"])
          /\ wm_pc' = "except"
          /\ UNCHANGED << log, wm_result >>
       \/ /\ fs' = WriteFile(fs, wm_args.output_path, PdfDoc(pdf_writer))
          /\ log' = Log("watermark_ok")
          /\ wm_result' = TRUE
          /\ wm_pc' = "finally"
          /\ UNCHANGED wm_io_fault
    /\ UNCHANGED << temp_files, pdf_libs, font_registered, wm_args,
                    watermark_canvas_path, pdf_writer, wm_calls, wm_fs0 >>

\* except Exception as e: log; return False
AddWatermark_Except ==
    /\ wm_pc = "except"
    /\ log' = Log("watermark_error")
    /\ wm_result' = FALSE
    /\ wm_pc' = "finally"
    /\ UNCHANGED << fs, temp_files, pdf_libs, font_registered, wm_args,
                    watermark_canvas_path, pdf_writer, wm_calls, wm_fs0,
                    wm_io_fault >>

\* A finally block that leaves the overlay file where it is.
KeepOverlay == temp_files

\* The unlink of the finally block; os.unlink of the file the call itself
\* created is taken to succeed.
UnlinkOverlay ==
    IF watermark_canvas_path # None /\ Exists(temp_files, watermark_canvas_path)
    THEN RemoveFile(temp_files, watermark_canvas_path)
    ELSE temp_files

\* finally: if watermark_canvas_path and os.path.exists(...): os.unlink(...)
AddWatermark_Finally ==
    /\ wm_pc = "finally"
    /\ temp_files' = UnlinkOverlay
    /\ wm_pc' = "returned"
    /\ UNCHANGED << fs, pdf_libs, font_registered, log, wm_args,
                    watermark_canvas_path, pdf_writer, wm_result, wm_calls,
                    wm_fs0, wm_io_fault >>

AddWatermarkStep ==
    /\ \/ AddWatermark_Enter
       \/ AddWatermark_OpenSource
       \/ AddWatermark_CreateTemp
       \/ AddWatermark_Render
       \/ AddWatermark_Merge
       \/ AddWatermark_Write
       \/ AddWatermark_Except
       \/ AddWatermark_Finally
    /\ UNCHANGED << gui_vars, worker_vars, platform_vars, install_vars >>

\* What a caller does to call add_watermark(pdf_path, watermark_text,
\* output_path, opacity, font_size, rotation).
CallAddWatermark(pdf_path, text, output_path, opacity, font_size, rotation) ==
    /\ wm_args' = [ pdf_path |-> pdf_path, watermark_text |-> text,
                    output_path |-> output_path, opacity |-> opacity,
                    font_size |-> font_size, rotation |-> rotation ]
    /\ wm_pc' = "called"
    /\ wm_calls' = wm_calls + 1
    /\ wm_fs0' = fs
    /\ wm_io_fault' = FALSE

NoArgs == [ pdf_path |-> None, watermark_text |-> <<>>, output_path |-> None,
            opacity |-> 0, font_size |-> 0, rotation |-> 0 ]

InitWatermarkState ==
    /\ temp_files = << >>
    /\ log = << >>
    /\ wm_pc = "idle"
    /\ wm_args = NoArgs
    /\ watermark_canvas_path = None
    /\ pdf_writer = << >>
    /\ wm_result = FALSE
    /\ wm_calls = 0
    /\ wm_fs0 = << >>
    /\ wm_io_fault = FALSE

\* ------------------------------------------------- OfficeToPDFConverter
\* The PDF an engine writes for an office document.
ConvertedDoc == PdfDoc(<< Page(3 * Unit, 2 * Unit) >>)

OfficeDoc == [kind |-> "office"]

\* str.lower() on a file suffix.
Lower(ext) ==
    CASE ext = ".PDF"  -> ".pdf"
      [] ext = ".DOCX" -> ".docx"
      [] OTHER         -> ext

\* What the automation calls of one conversion do: each returns or raises,
\* and SaveAs may return without having written the file.
ComOutcomes ==
    [ create : {"ok", "raise"}, open : {"ok", "raise"},
      save : {"ok", "nofile", "raise"}, close : {"ok", "raise"},
      quit : {"ok", "raise"} ]

\* convert_with_comtypes(input_path, output_path).  ret is "True", "False"
\* or "raise" (an exception leaves the function); app_running and doc_open
\* tell what the call left behind.
convert_with_comtypes(sys, has_comtypes, files, input_path, output_path, com) ==
    LET app == IF Lower(input_path.ext) \in {".doc", ".docx"}
               THEN "word" ELSE "powerpoint"
        refused(m) == [ ret |-> "False", log |-> << m >>, files |-> files,
                        app |-> app, app_running |-> FALSE, doc_open |-> FALSE ]
        created == com.create = "ok"
        opened  == created /\ com.open = "ok"
        saved   == opened /\ com.save # "raise"
        \* finally: if doc: doc.Close(); if word: word.Quit()
        close_raised == opened /\ com.close = "raise"
        quit_called  == created /\ ~close_raised
        quit_raised  == quit_called /\ com.quit = "raise"
    IN  IF sys # "Windows" THEN refused("comtypes_windows_only")
        ELSE IF ~has_comtypes THEN refused("comtypes_missing")
        ELSE [ ret   |-> IF close_raised \/ quit_raised THEN "raise"
                         ELSE IF saved THEN "True" ELSE "False",
               log   |-> << IF app = "word" THEN "word_start" ELSE "powerpoint_start",
                            IF saved THEN "convert_ok"
                            ELSE IF app = "word" THEN "word_error"
                            ELSE "powerpoint_error" >>,
               files |-> IF opened /\ com.save = "ok"
                         THEN WriteFile(files, output_path, ConvertedDoc)
                         ELSE files,
               app   |-> app,
               app_running |-> created /\ (~quit_called \/ quit_raised),
               doc_open    |-> close_raised ]

\* DependencyManager.find_libreoffice_path: on macOS and Windows the path of
\* the installed engine inside double quotes, when it is there; the bare
\* command name, to be looked up on PATH, everywhere else.
find_libreoffice_path(sys, present) ==
    IF sys \in { "Darwin", "Windows" } /\ present
    THEN [ quoted |-> TRUE,  text |-> [ engine |-> sys ] ]
    ELSE [ quoted |-> FALSE, text |-> [ engine |-> "libreoffice" ] ]

\* The texts that hold a space: of the engine paths,
\* C:\Program Files\LibreOffice\program\soffice.exe.
HasSpace(text) == text = [ engine |-> "Windows" ]

Opt(s) == [ opt |-> s ]

\* --headless --convert-to pdf --outdir
EngineOptions == << Opt("--headless"), Opt("--convert-to"), Opt("pdf"), Opt("--outdir") >>

\* The arguments a conversion of input_path into output_dir consists of.
EngineArguments(output_dir, input_path) ==
    EngineOptions \o << [ dirname |-> output_dir ], input_path >>

\* cmd_str: one string with the engine, the directory and the input inside
\* double quotes when the engine path came back quoted, the list of the
\* seven items otherwise.
EngineCommand(sys, soffice_cmd, output_dir, input_path) ==
    IF sys \in { "Windows", "Darwin" } /\ soffice_cmd.quoted
    THEN [ form  |-> "string",
           words |-> << soffice_cmd >>
                     \o [ i \in 1..Len(EngineOptions) |->
                            [ quoted |-> FALSE, text |-> EngineOptions[i] ] ]
                     \o << [ quoted |-> TRUE, text |-> [ dirname |-> output_dir ] ],
                           [ quoted |-> TRUE, text |-> input_path ] >> ]
    ELSE [ form  |-> "list",
           words |-> << soffice_cmd.text >> \o EngineArguments(output_dir, input_path) ]

\* The words the shell makes of one word of a command string: a quoted one
\* is one word without its quotes, an unquoted one is split at its spaces.
ShellWords(word) ==
    IF ~word.quoted /\ HasSpace(word.text)
    THEN << [ piece |-> 1, of |-> word.text ], [ piece |-> 2, of |-> word.text ] >>
    ELSE << word.text >>

RECURSIVE ShellSplit(_)
ShellSplit(words) ==
    IF words = << >> THEN << >>
    ELSE ShellWords(Head(words)) \o ShellSplit(Tail(words))

\* subprocess.run(cmd_str, shell=True, ...): the program started and the
\* arguments it receives. A string is split by the shell. A list is, on
\* Windows, joined into one command line, each item quoted as it needs; on
\* POSIX its first item alone is the command the shell runs, the other
\* items becoming positional parameters of the shell itself.
ShellRun(sys, cmd) ==
    IF cmd.form = "string"
    THEN LET w == ShellSplit(cmd.words)
         IN  [ program |-> Head(w), args |-> Tail(w) ]
    ELSE IF sys = "Windows"
    THEN [ program |-> Head(cmd.words), args |-> Tail(cmd.words) ]
    ELSE [ program |-> Head(cmd.words), args |-> << >> ]

\* What the engine subprocess does: it cannot be launched, or it runs, exits
\* with a return code and has or has not written the file; what it printed
\* is then decoded as UTF-8 ("undecodable": subprocess.run raises once the
\* process has exited).
LibreOfficeOutcomes ==
    [ launch : {"ok", "raise", "undecodable"}, returncode : {0, 1}, writes : BOOLEAN ]

\* result.returncode == 0 and output_file.exists()
LibreOfficeSucceeded(returncode, files, output_file) ==
    returncode = 0 /\ Exists(files, output_file)

\* convert_with_libreoffice(input_path, output_dir); exit_status and args
\* are what the engine process exited with and was started with. An engine
\* started with the arguments of a conversion may write the file; one
\* started with anything else converts nothing.
convert_with_libreoffice(sys, present, files, input_path, output_dir, lo) ==
    LET soffice_cmd == find_libreoffice_path(sys, present)
        run == ShellRun(sys, EngineCommand(sys, soffice_cmd, output_dir, input_path))
        output_file == MkPath(output_dir, input_path.stem, ".pdf")
        files1 == IF lo.writes /\ run.args = EngineArguments(output_dir, input_path)
                  THEN WriteFile(files, output_file, ConvertedDoc)
                  ELSE files
    IN  IF lo.launch = "raise"
        THEN [ ret |-> "False", log |-> << "libreoffice_start", "libreoffice_exception" >>,
               files |-> files, exit_status |-> None, args |-> << >> ]
        ELSE IF lo.launch = "undecodable"
        THEN [ ret |-> "False", log |-> << "libreoffice_start", "libreoffice_exception" >>,
               files |-> files1, exit_status |-> [ code |-> lo.returncode ],
               args |-> run.args ]
        ELSE IF LibreOfficeSucceeded(lo.returncode, files1, output_file)
        THEN [ ret |-> "True", log |-> << "libreoffice_start", "convert_ok" >>,
               files |-> files1, exit_status |-> [ code |-> lo.returncode ],
               args |-> run.args ]
        ELSE [ ret |-> "False", log |-> << "libreoffice_start", "libreoffice_failed" >>,
               files |-> files1, exit_status |-> [ code |-> lo.returncode ],
               args |-> run.args ]

Systems == { "Windows", "Darwin", "Linux" }

\* The files a user can offer to the file list: two office documents in one
\* directory and, in another directory, a PDF named like the first of them.
FileA == MkPath("in", << "a" >>, ".docx")
FileB == MkPath("in", << "b" >>, ".pptx")
FileC == MkPath("docs", << "a" >>, ".pdf")

\* The order in which a file dialog or a drop lists the candidates.
CandidateOrder == << FileA, FileB, FileC >>

\* The selections a user can offer at once: the sublists of the first n
\* candidates, in that order.
RECURSIVE FileLists(_)
FileLists(n) ==
    IF n = 0 THEN { <<>> }
    ELSE LET shorter == FileLists(n - 1)
         IN  IF n > Len(CandidateOrder) THEN shorter
             ELSE shorter \cup { Append(l, CandidateOrder[n]) : l \in shorter }

Elements(seq) == { seq[k] : k \in 1..Len(seq) }

\* if not file.lower().endswith(('.pptx', '.pdf', '.ppt', '.docx', '.doc'))
Admitted(file) == Lower(file.ext) \in { ".pptx", ".pdf", ".ppt", ".docx", ".doc" }

\* The loop of _add_file_paths: the list after offering file_paths.
RECURSIVE AppendNew(_, _)
AppendNew(list, file_paths) ==
    IF file_paths = <<>> THEN list
    ELSE LET file == Head(file_paths)
         IN  IF Admitted(file) /\ file \notin Elements(list)
             THEN AppendNew(Append(list, file), Tail(file_paths))
             ELSE AppendNew(list, Tail(file_paths))

WorkerActive == worker.pc # "idle"

\* _add_file_paths(file_paths), as run by a handler that has logged log0 so
\* far: the output directory is set from the first path when none is set,
\* then the paths are filtered and appended.
AddFilePathsWith(file_paths, log0) ==
    /\ LET auto_dir == output_directory = "" /\ file_paths # << >>
           added    == AppendNew(input_files, file_paths)
           log1     == IF auto_dir THEN Append(log0, "output_dir_auto") ELSE log0
       IN  /\ output_directory' = IF auto_dir THEN file_paths[1].dir
                                  ELSE output_directory
           /\ input_files' = added
           /\ log' = IF Len(added) > Len(input_files)
                     THEN Append(log1, "files_added") ELSE log1
           /\ list_touched' = (list_touched \/ (WorkerActive /\ added # input_files))
    /\ ui_events' = ui_events + 1
    /\ messagebox' = "none"
    /\ UNCHANGED << conversion_method, add_watermark, watermark_text,
                    watermark_opacity, watermark_size, watermark_rotation,
                    watermark_history, settings_file, convert_button,
                    progress_running, after_queue >>
    /\ UNCHANGED << fs, wm_env, wm_locals, worker_vars, platform_vars, install_vars >>

\* The messages in view when a foreground handler begins: those of the run
\* in progress, if any.
HandlerLog == IF WorkerActive THEN log ELSE << >>

\* _add_file_paths(file_paths), reached from add_files, add_folder and a
\* drop, with files the program can process.
AddFilePaths ==
    /\ ui_events < MaxUiEvents
    /\ \E file_paths \in FileLists(MaxFiles) \ { <<>> } :
          AddFilePathsWith(file_paths, HandlerLog)

\* clear_files
ClearFiles ==
    /\ ui_events < MaxUiEvents
    /\ input_files # <<>>
    /\ input_files' = <<>>
    /\ list_touched' = (list_touched \/ WorkerActive)
    /\ ui_events' = ui_events + 1
    /\ messagebox' = "none"
    /\ UNCHANGED << output_directory, conversion_method, add_watermark,
                    watermark_text, watermark_opacity, watermark_size,
                    watermark_rotation, watermark_history, settings_file,
                    convert_button, progress_running, after_queue >>
    /\ UNCHANGED << wm_vars, worker_vars, platform_vars, install_vars >>

\* The output directory is set: select_output_dir with the directory the
\* user picks, or the entry bound to output_directory edited by hand, which
\* can also be emptied.
SelectOutputDir ==
    /\ ui_events < MaxUiEvents
    /\ \E d \in { "", "in", "out" } :
          /\ d # output_directory
          /\ output_directory' = d
    /\ ui_events' = ui_events + 1
    /\ messagebox' = "none"
    /\ UNCHANGED << input_files, conversion_method, add_watermark, watermark_text,
                    watermark_opacity, watermark_size, watermark_rotation,
                    watermark_history, settings_file, convert_button,
                    progress_running, after_queue, list_touched >>
    /\ UNCHANGED << wm_vars, worker_vars, platform_vars, install_vars >>

\* The method combobox: read-only on Windows, disabled elsewhere.
SelectMethod ==
    /\ ui_events < MaxUiEvents
    /\ system = "Windows"
    /\ \E m \in { "auto", "comtypes", "libreoffice" } :
          /\ m # conversion_method
          /\ conversion_method' = m
    /\ ui_events' = ui_events + 1
    /\ messagebox' = "none"
    /\ UNCHANGED << input_files, output_directory, add_watermark, watermark_text,
                    watermark_opacity, watermark_size, watermark_rotation,
                    watermark_history, settings_file, convert_button,
                    progress_running, after_queue, list_touched >>
    /\ UNCHANGED << wm_vars, worker_vars, platform_vars, install_vars >>

\* The watermark check box.
ToggleWatermark ==
    /\ ui_events < MaxUiEvents
    /\ add_watermark' = ~add_watermark
    /\ ui_events' = ui_events + 1
    /\ messagebox' = "none"
    /\ UNCHANGED << input_files, output_directory, conversion_method,
                    watermark_text, watermark_opacity, watermark_size,
                    watermark_rotation, watermark_history, settings_file,
                    convert_button, progress_running, after_queue, list_touched >>
    /\ UNCHANGED << wm_vars, worker_vars, platform_vars, install_vars >>

IdleWorker ==
    [ pc |-> "idle", i |-> 0, success_count |-> 0, total_files |-> 0,
      should_save_settings |-> FALSE, output_dir |-> "", input_path |-> None,
      method |-> "", conversion_success |-> FALSE,
      processed_pdf_path |-> None, loop_entered |-> FALSE ]

\* A start that looks at the file list only.
ConfigurationError_FilesOnly(files, dir) == files = << >>

\* start_processing: 'if not self.input_files' and
\* 'if not self.output_directory.get()'
ConfigurationError(files, dir) == files = << >> \/ dir = ""

\* A start that leaves the trigger enabled.
TriggerLeftEnabled == "normal"

\* self.convert_button.config(state="disabled")
TriggerAfterStart == "disabled"

\* start_processing (through start_processing_with_permission_check)
StartProcessing ==
    /\ ui_events < MaxUiEvents
    /\ convert_button = "normal"
    /\ ui_events' = ui_events + 1
    /\ IF ConfigurationError(input_files, output_directory)
       THEN /\ messagebox' = IF input_files = << >> THEN "warn_no_files"
                             ELSE "warn_no_output"
            /\ UNCHANGED << convert_button, progress_running, worker, calls,
                            outcomes, list_touched >>
       ELSE /\ messagebox' = "none"
            /\ convert_button' = TriggerAfterStart
            /\ progress_running' = TRUE
            /\ worker' = [IdleWorker EXCEPT !.pc = "begin"]
            /\ calls' = <<>>
            /\ outcomes' = <<>>
            /\ list_touched' = FALSE
    /\ UNCHANGED << input_files, output_directory, conversion_method,
                    add_watermark, watermark_text, watermark_opacity,
                    watermark_size, watermark_rotation, watermark_history,
                    settings_file, after_queue >>
    /\ UNCHANGED << wm_vars, platform_vars, install_vars >>

\* str.strip() on a text: leading and trailing blanks removed.
RECURSIVE StripLeft(_)
StripLeft(text) ==
    IF text # <<>> /\ Head(text) = " " THEN StripLeft(Tail(text)) ELSE text

RECURSIVE StripRight(_)
StripRight(text) ==
    IF text # <<>> /\ text[Len(text)] = " "
    THEN StripRight(SubSeq(text, 1, Len(text) - 1)) ELSE text

Strip(text) == StripRight(StripLeft(text))

HistoryLimit == 5

\* list.remove(x): the list without the first occurrence of x.
RECURSIVE ListRemove(_, _)
ListRemove(list, x) ==
    IF list = << >> THEN << >>
    ELSE IF Head(list) = x THEN Tail(list)
    ELSE << Head(list) >> \o ListRemove(Tail(list), x)

\* remove(current_text) when present; insert(0, current_text); [:5]
UpdatedHistory(history, current_text) ==
    LET without == ListRemove(history, current_text)
        updated == << current_text >> \o without
    IN  SubSeq(updated, 1, IF Len(updated) < HistoryLimit THEN Len(updated)
                           ELSE HistoryLimit)

\* _save_current_settings, run on the foreground thread.
SaveCurrentSettings ==
    LET current_text == Strip(watermark_text)
    IN  IF current_text = <<>>
        THEN UNCHANGED << watermark_history, settings_file >>
        ELSE /\ watermark_history' = UpdatedHistory(watermark_history, current_text)
             /\ settings_file' =
                   [ last_watermark_text |-> current_text,
                     opacity  |-> watermark_opacity,
                     size     |-> watermark_size,
                     rotation |-> watermark_rotation,
                     watermark_history |-> watermark_history' ]

\* A hand-back callback that stops the progress bar only.
TriggerStaysDisabled == "disabled"

\* self.convert_button.config(state="normal"), in the callback queued by the
\* finally block of the run
TriggerAfterRun == "normal"

\* The user types a text into the watermark text box.
TypedTexts ==
    { << "A" >>, << "B" >>, << "C" >>, << " ", "A", " " >>, << " " >>, << >> }

SetWatermarkText ==
    /\ ui_events < MaxUiEvents
    /\ \E t \in TypedTexts :
          /\ t # watermark_text
          /\ watermark_text' = t
    /\ ui_events' = ui_events + 1
    /\ messagebox' = "none"
    /\ UNCHANGED << input_files, output_directory, conversion_method,
                    add_watermark, watermark_opacity, watermark_size,
                    watermark_rotation, watermark_history, settings_file,
                    convert_button, progress_running, after_queue, list_touched >>
    /\ UNCHANGED << wm_vars, worker_vars, platform_vars, install_vars >>

\* _save_current_settings is called on the foreground thread: by the
\* callback a run has queued, or by on_close.
SaveSettingsCall ==
    /\ ui_events < MaxUiEvents
    /\ SaveCurrentSettings
    /\ ui_events' = ui_events + 1
    /\ UNCHANGED << input_files, output_directory, conversion_method,
                    add_watermark, watermark_text, watermark_opacity,
                    watermark_size, watermark_rotation, convert_button,
                    progress_running, after_queue, list_touched, messagebox >>
    /\ UNCHANGED << wm_vars, worker_vars, platform_vars, install_vars >>

\* The foreground thread runs the next callback of the after queue.
RunAfterCallback ==
    /\ after_queue # <<>>
    /\ after_queue' = Tail(after_queue)
    /\ \/ /\ Head(after_queue) = "save_settings"
          /\ SaveCurrentSettings
          /\ UNCHANGED << convert_button, progress_running >>
       \/ \* lambda: (self.progress.stop(), self.convert_button.config(state="normal"))
          /\ Head(after_queue) = "ready"
          /\ progress_running' = FALSE
          /\ convert_button' = TriggerAfterRun
          /\ UNCHANGED << watermark_history, settings_file >>
    /\ UNCHANGED << input_files, output_directory, conversion_method,
                    add_watermark, watermark_text, watermark_opacity,
                    watermark_size, watermark_rotation, list_touched, ui_events,
                    messagebox >>
    /\ UNCHANGED << wm_vars, worker_vars, platform_vars, install_vars >>

\* ------------------------------------------- _perform_processing (worker)
\* A backend choice that goes by the platform alone.
use_comtypes_by_platform(method, sys) == method = "comtypes" \/ sys = "Windows"

\* use_comtypes = (method == "comtypes") or
\*                (method == "auto" and platform.system() == "Windows")
use_comtypes(method, sys) ==
    method = "comtypes" \/ (method = "auto" /\ sys = "Windows")

\* if not conversion_success and method == "auto": try LibreOffice
FallbackToLibreOffice(conversion_success, method) ==
    ~conversion_success /\ method = "auto"

IsOfficeFile(path) == Lower(path.ext) \in { ".pptx", ".ppt", ".docx", ".doc" }

OutputPdfPath(w) == MkPath(w.output_dir, w.input_path.stem, ".pdf")

\* A pipeline that has the watermarked document written over its source.
WatermarkInPlace(output_dir, processed_pdf_path) == processed_pdf_path

\* watermarked_output_path = output_dir / f"{processed_pdf_path.stem}_watermarked.pdf"
WatermarkedOutputPath(output_dir, processed_pdf_path) ==
    MkPath(output_dir, Append(processed_pdf_path.stem, "_watermarked"), ".pdf")

\* The GUI, the add_watermark machine and the platform are left alone.
WorkerOnly == UNCHANGED << gui_vars, platform_vars, install_vars, wm_env, wm_locals >>

\* should_save_settings, output_dir and its mkdir, the two counters.
Worker_Begin ==
    /\ worker.pc = "begin"
    /\ log' = <<>>
    /\ \/ \* output_dir.mkdir raises
          worker' = [worker EXCEPT !.pc = "except",
                                   !.should_save_settings = add_watermark]
       \/ worker' = [worker EXCEPT !.pc = "loop",
                                   !.should_save_settings = add_watermark,
                                   !.output_dir = output_directory,
                                   !.success_count = 0,
                                   !.total_files = Len(input_files),
                                   !.i = 0,
                                   !.loop_entered = TRUE]
    /\ UNCHANGED << fs, calls, outcomes >>
    /\ WorkerOnly

\* The head of the loop: the next file of the list, or the end of the loop.
\* For a file: the header message, the suffix test and, for a PDF, the
\* skip message.
Worker_NextFile ==
    /\ worker.pc = "loop"
    /\ IF worker.i >= Len(input_files)
       THEN /\ worker' = [worker EXCEPT !.pc = "summary"]
            /\ UNCHANGED << log, calls >>
       ELSE LET file == input_files[worker.i + 1]
                w1   == [worker EXCEPT !.i = @ + 1, !.input_path = file,
                                       !.processed_pdf_path = None]
            IN  /\ calls' = <<>>
                /\ IF IsOfficeFile(file)
                   THEN /\ log' = << "file_header" >>
                        /\ worker' = [w1 EXCEPT
                              !.method = conversion_method,
                              !.conversion_success = FALSE,
                              !.pc = IF use_comtypes(conversion_method, system)
                                     THEN "comtypes" ELSE "libreoffice"]
                   ELSE IF Lower(file.ext) = ".pdf"
                   THEN /\ log' = << "file_header", "pdf_skip_conversion" >>
                        /\ worker' = [w1 EXCEPT !.processed_pdf_path = file,
                                                !.pc = "post"]
                   ELSE /\ log' = << "file_header" >>
                        /\ worker' = [w1 EXCEPT !.pc = "post"]
    /\ UNCHANGED << fs, outcomes >>
    /\ WorkerOnly

\* What has become of the file in hand: whether it was counted
\* (success_count += 1) and, if so, the path of its final output.
Outcome(result, output) ==
    [ result |-> result, input |-> worker.input_path, output |-> output ]

\* if conversion_success: processed_pdf_path = output_pdf_path
\* else: log; continue
AfterConversion(w, conversion_success, log1) ==
    IF conversion_success
    THEN /\ worker' = [w EXCEPT !.conversion_success = TRUE,
                                !.processed_pdf_path = OutputPdfPath(w),
                                !.pc = "post"]
         /\ log' = log1
         /\ UNCHANGED outcomes
    ELSE /\ worker' = [w EXCEPT !.conversion_success = FALSE, !.pc = "loop"]
         /\ log' = Append(log1, "conversion_failed")
         /\ outcomes' = Append(outcomes, Outcome("failed", None))

\* A backend invocation as the run has seen it end: what it returned,
\* whether the output file is there, and what it left behind of the office
\* application it drove.
Call(backend, ret, path, app_running, doc_open, exit_status, args) ==
    [ backend |-> backend, ret |-> ret, file_exists |-> Exists(fs', path),
      app_running |-> app_running, doc_open |-> doc_open,
      exit_status |-> exit_status, args |-> args ]

\* conversion_success = self.converter.convert_with_comtypes(...) and what
\* follows its return.
Worker_Comtypes ==
    /\ worker.pc = "comtypes"
    /\ \E com \in ComOutcomes :
          LET r == convert_with_comtypes(system, comtypes_installed, fs,
                                         worker.input_path, OutputPdfPath(worker), com)
              log1 == log \o r.log
          IN  /\ fs' = r.files
              /\ calls' = Append(calls, Call("comtypes", r.ret, OutputPdfPath(worker),
                                              r.app_running, r.doc_open, None, << >>))
              /\ IF r.ret = "raise"
                 THEN /\ worker' = [worker EXCEPT !.pc = "except"]
                      /\ log' = log1
                      /\ outcomes' = Append(outcomes, Outcome("failed", None))
                 ELSE IF FallbackToLibreOffice(r.ret = "True", worker.method)
                 THEN /\ worker' = [worker EXCEPT !.pc = "libreoffice"]
                      /\ log' = Append(log1, "fallback_to_libreoffice")
                      /\ UNCHANGED outcomes
                 ELSE AfterConversion(worker, r.ret = "True", log1)
    /\ WorkerOnly

\* conversion_success = self.converter.convert_with_libreoffice(...) and
\* what follows its return.
Worker_LibreOffice ==
    /\ worker.pc = "libreoffice"
    /\ \E lo \in LibreOfficeOutcomes :
          LET r == convert_with_libreoffice(system, lo_present, fs, worker.input_path,
                                            worker.output_dir, lo)
          IN  /\ fs' = r.files
              /\ calls' = Append(calls, Call("libreoffice", r.ret, OutputPdfPath(worker),
                                              FALSE, FALSE, r.exit_status, r.args))
              /\ AfterConversion(worker, r.ret = "True", log \o r.log)
    /\ WorkerOnly

\* A worker that goes on to the next file without waiting for add_watermark.
GoesOnWithoutWaiting == "loop"

\* if self.watermark_manager.add_watermark(...): the call is made by the
\* worker itself, which is inside it until it returns.
InsideAddWatermark == "watermarking"

\* if processed_pdf_path and processed_pdf_path.exists(): watermark it, or
\* copy it when watermarking is off.
Worker_Post ==
    /\ worker.pc = "post"
    /\ LET p == worker.processed_pdf_path
           present == IF p = None THEN FALSE ELSE Exists(fs, p)
       IN  \/ \* nothing to process: on to the next file
              /\ ~present
              /\ worker' = [worker EXCEPT !.pc = "loop"]
              /\ outcomes' = Append(outcomes, Outcome("failed", None))
              /\ UNCHANGED << fs, log, wm_pc, wm_args, wm_calls, wm_fs0, wm_io_fault >>
           \/ \* add_watermark(processed_pdf_path, text, <stem>_watermarked.pdf, ...)
              /\ present
              /\ add_watermark
              /\ CallAddWatermark(p, watermark_text,
                                  WatermarkedOutputPath(worker.output_dir, p),
                                  watermark_opacity, watermark_size,
                                  watermark_rotation)
              /\ worker' = [worker EXCEPT !.pc = InsideAddWatermark]
              /\ UNCHANGED << fs, log, outcomes >>
           \/ \* no watermark: the PDF is already in place, or is copied
              /\ present
              /\ ~add_watermark
              /\ LET final_path == MkPath(worker.output_dir, p.stem, p.ext)
                 IN  fs' = IF ~Exists(fs, final_path) \/ final_path # p
                           THEN WriteFile(fs, final_path, fs[p]) ELSE fs
              /\ log' = Log("done_no_watermark")
              /\ worker' = [worker EXCEPT !.success_count = @ + 1, !.pc = "loop"]
              /\ outcomes' = Append(outcomes,
                     Outcome("ok", MkPath(worker.output_dir, p.stem, p.ext)))
              /\ UNCHANGED << wm_pc, wm_args, wm_calls, wm_fs0, wm_io_fault >>
           \/ \* no watermark: shutil.copy2 raises
              /\ present
              /\ ~add_watermark
              /\ MkPath(worker.output_dir, p.stem, p.ext) # p
              /\ worker' = [worker EXCEPT !.pc = "except"]
              /\ outcomes' = Append(outcomes, Outcome("failed", None))
              /\ UNCHANGED << fs, log, wm_pc, wm_args, wm_calls, wm_fs0, wm_io_fault >>
    /\ UNCHANGED << gui_vars, platform_vars, install_vars, calls, wm_env,
                    watermark_canvas_path, pdf_writer, wm_result >>

\* add_watermark has returned: count the file or log the failure.
Worker_WatermarkReturn ==
    /\ worker.pc = "watermarking"
    /\ wm_pc = "returned"
    /\ IF wm_result
       THEN /\ worker' = [worker EXCEPT !.success_count = @ + 1, !.pc = "loop"]
            /\ outcomes' = Append(outcomes, Outcome("ok", wm_args.output_path))
            /\ UNCHANGED log
       ELSE /\ worker' = [worker EXCEPT !.pc = "loop"]
            /\ outcomes' = Append(outcomes, Outcome("failed", None))
            /\ log' = Log("watermark_failed")
    \* the frame of the call is gone
    /\ wm_pc' = "idle"
    /\ wm_args' = NoArgs
    /\ watermark_canvas_path' = None
    /\ pdf_writer' = << >>
    /\ wm_result' = FALSE
    /\ wm_fs0' = << >>
    /\ wm_io_fault' = FALSE
    /\ UNCHANGED << gui_vars, platform_vars, install_vars, fs, calls, wm_env,
                    wm_calls >>

\* A run that asks for the settings to be saved whatever came of it.
PersistAfterAnyRun(should_save_settings, success_count) == TRUE

\* if should_save_settings and success_count > 0
ShouldPersist(should_save_settings, success_count) ==
    should_save_settings /\ success_count > 0

\* The summary message and the request to save the settings.
Worker_Summary ==
    /\ worker.pc = "summary"
    /\ log' = Log("summary")
    /\ after_queue' = IF ShouldPersist(worker.should_save_settings, worker.success_count)
                      THEN Append(after_queue, "save_settings") ELSE after_queue
    /\ worker' = [worker EXCEPT !.pc = "finally"]
    /\ UNCHANGED << input_files, output_directory, conversion_method,
                    add_watermark, watermark_text, watermark_opacity,
                    watermark_size, watermark_rotation, watermark_history,
                    settings_file, convert_button, progress_running,
                    list_touched, ui_events, messagebox >>
    /\ UNCHANGED << fs, wm_env, wm_locals, calls, outcomes, platform_vars, install_vars >>

\* except Exception as e: log
Worker_Except ==
    /\ worker.pc = "except"
    /\ log' = Log("severe_error")
    /\ worker' = [worker EXCEPT !.pc = "finally"]
    /\ UNCHANGED << fs, calls, outcomes >>
    /\ WorkerOnly

\* finally: root.after(0, lambda: (progress.stop(), convert_button normal));
\* the thread ends.  Of the messages of the run the closing one (the summary
\* or the severe error) stays in view until the next operation begins.
Worker_Finally ==
    /\ worker.pc = "finally"
    /\ after_queue' = Append(after_queue, "ready")
    /\ worker' = IdleWorker
    /\ calls' = << >>
    /\ outcomes' = << >>
    /\ list_touched' = FALSE
    /\ log' = SelectSeq(log, LAMBDA m : m \in { "summary", "severe_error" })
    /\ UNCHANGED << input_files, output_directory, conversion_method,
                    add_watermark, watermark_text, watermark_opacity,
                    watermark_size, watermark_rotation, watermark_history,
                    settings_file, convert_button, progress_running,
                    ui_events, messagebox >>
    /\ UNCHANGED << fs, wm_env, wm_locals, platform_vars, install_vars >>

\* add_watermark running inside the worker thread.
Worker_AddWatermark ==
    /\ worker.pc = "watermarking"
    /\ AddWatermarkStep

\* ------------------------------------------------- DependencyManager
\* platform.machine(), as the parts of its name; the last part is what
\* machine.endswith('64') looks at.  The empty name is what platform.machine()
\* gives when the machine cannot be determined.
Machines == { << "AMD", "64" >>, << "x86" >>, << "arm", "64" >>, << "x86_", "64" >>,
              << "aarch", "64" >>, << >> }

DefaultMachine(sys) ==
    IF sys = "Windows" THEN << "AMD", "64" >>
    ELSE IF sys = "Darwin" THEN << "arm", "64" >>
    ELSE << "x86_", "64" >>

\* A check that never finds LibreOffice.
check_libreoffice_never(present) == FALSE

\* DependencyManager.check_libreoffice: on every platform the answer is
\* whether an installed LibreOffice is found.
check_libreoffice(present) == present

\* A resolver that reports a platform without URL by None alone.
get_url_without_message(sys, mach) ==
    IF sys = "Windows" /\ mach # << >> /\ mach[Len(mach)] = "64"
    THEN [ url |-> [ url |-> "LibreOffice_25.2.5_Win_x86-64.msi" ], log |-> << >> ]
    ELSE [ url |-> None, log |-> << >> ]

\* DependencyManager.get_libreoffice_download_url: the URL (None when the
\* platform has none) and the messages it logs.
get_libreoffice_download_url(sys, mach) ==
    IF sys = "Windows" /\ mach # << >> /\ mach[Len(mach)] = "64"
    THEN [ url |-> [ url |-> "LibreOffice_25.2.5_Win_x86-64.msi" ], log |-> << >> ]
    ELSE IF sys = "Darwin" /\ mach = << "arm", "64" >>
    THEN [ url |-> [ url |-> "LibreOffice_25.2.5_MacOS_aarch64.dmg" ], log |-> << >> ]
    ELSE IF sys = "Darwin" /\ mach = << "x86_", "64" >>
    THEN [ url |-> [ url |-> "LibreOffice_25.2.5_MacOS_x86-64.dmg" ], log |-> << >> ]
    ELSE [ url |-> None, log |-> << "install_unsupported" >> ]

\* A volume of the disk image that attempt t downloaded, as a mount point
\* under /Volumes/.
Volume(t, name) == [ volume |-> name, image |-> t ]

Field(text) == [ text |-> text ]

\* What 'hdiutil attach' prints when it succeeds: one line per device entry,
\* the fields of a line separated by tabs, the mount point last.
AttachOutputs(t) ==
    { << << Field("/dev/disk4"), Field("GUID_partition_scheme"), Field("") >>,
         << Field("/dev/disk4s1"), Field("Apple_HFS"), Volume(t, "LibreOffice") >> >>,
      << << Field("/dev/disk4"), Field("GUID_partition_scheme"), Field("") >> >>,
      << << Field("/dev/disk4s1"), Field("Apple_HFS"), Volume(t, "LibreOffice") >>,
         << Field("/dev/disk4s2"), Field("Apple_HFS"), Volume(t, "Extras") >> >> }

IsVolume(field) == "volume" \in DOMAIN field

\* '/Volumes/' in line
HasVolume(line) == \E k \in 1..Len(line) : IsVolume(line[k])

\* The volumes an attach with this output has mounted.
VolumesOf(stdout) ==
    { f \in UNION { Elements(stdout[l]) : l \in 1..Len(stdout) } : IsVolume(f) }

\* for line in stdout: if '/Volumes/' in line: mount_point =
\* line.split('\t')[-1].strip(); break
RECURSIVE ParseMountPoint(_)
ParseMountPoint(stdout) ==
    IF stdout = << >> THEN None
    ELSE IF HasVolume(Head(stdout)) THEN Head(stdout)[Len(Head(stdout))]
    ELSE ParseMountPoint(Tail(stdout))

\* A detach that leaves every mount in place.
hdiutil_keep_all(mnt, mount_point) == mnt

\* The mounts left by 'hdiutil detach mount_point': detaching a mount point
\* detaches the image it belongs to; a path that is no mount point detaches
\* nothing.  The source does not look at the exit status of the command
\* (subprocess.run without check); the detach of a mounted volume is taken
\* to do its work.
hdiutil_detach(mnt, mount_point) ==
    IF mount_point \in mnt
    THEN { m \in mnt : m.image # mount_point.image }
    ELSE mnt

\* ----------------------------------------------------- install threads
InstallThreads == 1..MaxInstalls

\* A thread that has not been started.  Its log field holds the messages
\* the attempt has handed to the log sink, in order.
NoInstall == [ pc |-> "unstarted", url |-> None, mount_point |-> None,
               ret |-> "none", escaping |-> FALSE, phases |-> << >>,
               log |-> << >> ]

Started == { t \in InstallThreads : installs[t].pc # "unstarted" }

SetInstall(t, r) == installs' = [installs EXCEPT ![t] = r]

InstallOnly == UNCHANGED << fs, log, wm_env, wm_locals, gui_vars, worker_vars,
                            platform_vars >>

\* OfficeToPDFGUI.install_libreoffice: the install button is clicked.
InstallClick ==
    /\ install_lo_button = "normal"
    /\ Cardinality(Started) < MaxInstalls
    /\ \E confirm \in BOOLEAN :
          IF ~check_libreoffice(lo_present) /\ confirm
          THEN /\ install_lo_button' = "disabled"
               /\ SetInstall(Cardinality(Started) + 1,
                             [NoInstall EXCEPT !.pc = "resolve"])
               /\ UNCHANGED << lo_present, mounted, libreoffice_status,
                               pending_checks >>
          ELSE UNCHANGED install_vars
    /\ InstallOnly

\* OfficeToPDFGUI.check_dependencies, from the refresh button: a thread is
\* started that looks for LibreOffice.
RefreshClick ==
    /\ pending_checks < MaxChecks
    /\ pending_checks' = pending_checks + 1
    /\ UNCHANGED << lo_present, mounted, installs, install_lo_button,
                    libreoffice_status >>
    /\ InstallOnly

\* check() inside check_dependencies, on its own thread.
CheckThread ==
    /\ pending_checks > 0
    /\ pending_checks' = pending_checks - 1
    /\ IF check_libreoffice(lo_present)
       THEN libreoffice_status' = "installed" /\ install_lo_button' = "disabled"
       ELSE libreoffice_status' = "missing" /\ install_lo_button' = "normal"
    /\ UNCHANGED << lo_present, mounted, installs >>
    /\ InstallOnly

\* _install_libreoffice_thread: url = get_libreoffice_download_url()
Install_ResolveUrl(t) ==
    /\ installs[t].pc = "resolve"
    /\ LET r == get_libreoffice_download_url(system, machine)
       IN  SetInstall(t, [installs[t] EXCEPT
               !.url = r.url,
               !.log = @ \o r.log,
               !.phases = Append(@, "resolve"),
               !.pc = IF r.url = None THEN "finally" ELSE "download"])
    /\ UNCHANGED << lo_present, mounted, install_lo_button, libreoffice_status,
                    pending_checks >>
    /\ InstallOnly

\* A thread that runs the platform installer whatever download_file returned.
InstallAfterAnyDownload(ok, sys) ==
    IF sys = "Windows" THEN "msiexec"
    ELSE IF sys = "Darwin" THEN "attach"
    ELSE "finally"

\* Where _install_libreoffice_thread goes after download_file has returned:
\* 'if not download_file(...): return', then the installer of the platform.
AfterDownload(ok, sys) ==
    IF ~ok THEN "finally"
    ELSE IF sys = "Windows" THEN "msiexec"
    ELSE IF sys = "Darwin" THEN "attach"
    ELSE "finally"

\* download_file(url, installer_path) into a temporary directory
Install_Download(t) ==
    /\ installs[t].pc = "download"
    /\ \E ok \in BOOLEAN :
          SetInstall(t, [installs[t] EXCEPT
              !.log = @ \o << "download_start",
                              IF ok THEN "download_done" ELSE "download_failed" >>,
              !.phases = Append(@, "download"),
              !.pc = AfterDownload(ok, system)])
    /\ UNCHANGED << lo_present, mounted, install_lo_button, libreoffice_status,
                    pending_checks >>
    /\ InstallOnly

\* DependencyManager.install_libreoffice_windows
Install_Windows(t) ==
    /\ installs[t].pc = "msiexec"
    /\ \/ \* msiexec succeeds
          /\ lo_present' = TRUE
          /\ SetInstall(t, [installs[t] EXCEPT
                 !.ret = "True", !.pc = "finally",
                 !.log = @ \o << "msi_start", "install_ok" >>,
                 !.phases = Append(@, "install")])
       \/ \* msiexec fails or is missing; the installer is opened instead
          /\ \E startfile_raises \in BOOLEAN :
                SetInstall(t, [installs[t] EXCEPT
                    !.ret = IF startfile_raises THEN "raise" ELSE "False",
                    !.pc = IF startfile_raises THEN "except" ELSE "finally",
                    !.log = @ \o << "msi_start", "msi_failed", "msi_manual" >>,
                    !.phases = Append(@, "install")])
          /\ UNCHANGED lo_present
    /\ UNCHANGED << mounted, install_lo_button, libreoffice_status, pending_checks >>
    /\ InstallOnly

\* DependencyManager.install_libreoffice_macos: hdiutil attach dmg_path
\* (check=True), then the scan of its output for the mount point.
Mac_Attach(t) ==
    /\ installs[t].pc = "attach"
    /\ \/ \* hdiutil exits with an error: CalledProcessError
          /\ SetInstall(t, [installs[t] EXCEPT
                 !.pc = "mac_except",
                 !.log = Append(@, "mount_start"),
                 !.phases = Append(@, "install")])
          /\ UNCHANGED mounted
       \/ \E stdout \in AttachOutputs(t) :
             /\ mounted' = mounted \cup VolumesOf(stdout)
             /\ SetInstall(t, [installs[t] EXCEPT
                    !.mount_point = ParseMountPoint(stdout),
                    !.pc = "check_mount",
                    !.log = Append(@, "mount_start"),
                    !.phases = Append(@, "install")])
    /\ UNCHANGED << lo_present, install_lo_button, libreoffice_status, pending_checks >>
    /\ InstallOnly

\* if not mount_point or not os.path.exists(mount_point): raise RuntimeError
Mac_CheckMount(t) ==
    /\ installs[t].pc = "check_mount"
    /\ IF installs[t].mount_point = None \/ installs[t].mount_point \notin mounted
       THEN SetInstall(t, [installs[t] EXCEPT !.pc = "mac_except"])
       ELSE SetInstall(t, [installs[t] EXCEPT !.pc = "find_app",
                                              !.log = Append(@, "mounted_at")])
    /\ UNCHANGED << lo_present, mounted, install_lo_button, libreoffice_status,
                    pending_checks >>
    /\ InstallOnly

\* app_file = next((f for f in os.listdir(mount_point) if f.endswith('.app')),
\* None); if not app_file: raise RuntimeError
Mac_FindApp(t) ==
    /\ installs[t].pc = "find_app"
    /\ IF installs[t].mount_point \notin mounted
       THEN \* os.listdir raises FileNotFoundError
            SetInstall(t, [installs[t] EXCEPT !.pc = "mac_except"])
       ELSE \/ \* os.listdir raises another OSError, which no handler of
               \* the function catches
               SetInstall(t, [installs[t] EXCEPT !.pc = "mac_finally",
                                                 !.escaping = TRUE])
            \/ \* no .app in the volume
               SetInstall(t, [installs[t] EXCEPT !.pc = "mac_except"])
            \/ \* the application bundle is found
               SetInstall(t, [installs[t] EXCEPT
                   !.pc = "copy",
                   !.log = @ \o << "copy_start", "password_prompt" >>])
    /\ UNCHANGED << lo_present, mounted, install_lo_button, libreoffice_status,
                    pending_checks >>
    /\ InstallOnly

\* osascript: cp -R <app> /Applications/ with administrator privileges
\* (check=True)
Mac_Copy(t) ==
    /\ installs[t].pc = "copy"
    /\ \/ \* the copy succeeds: return True
          /\ installs[t].mount_point \in mounted
          /\ lo_present' = TRUE
          /\ SetInstall(t, [installs[t] EXCEPT !.ret = "True", !.pc = "mac_finally",
                                               !.log = Append(@, "install_ok")])
       \/ \* osascript exits with an error (CalledProcessError) or is missing
          \* (FileNotFoundError)
          /\ SetInstall(t, [installs[t] EXCEPT !.pc = "mac_except"])
          /\ UNCHANGED lo_present
    /\ UNCHANGED << mounted, install_lo_button, libreoffice_status, pending_checks >>
    /\ InstallOnly

\* except (CalledProcessError, RuntimeError, FileNotFoundError): return False
Mac_Except(t) ==
    /\ installs[t].pc = "mac_except"
    /\ SetInstall(t, [installs[t] EXCEPT !.ret = "False", !.pc = "mac_finally",
                                         !.log = Append(@, "mac_install_failed")])
    /\ UNCHANGED << lo_present, mounted, install_lo_button, libreoffice_status,
                    pending_checks >>
    /\ InstallOnly

\* finally: if mount_point: hdiutil detach mount_point.  The function then
\* returns to the thread, or lets the exception it did not catch through.
Mac_Finally(t) ==
    /\ installs[t].pc = "mac_finally"
    /\ mounted' = IF installs[t].mount_point # None
                  THEN hdiutil_detach(mounted, installs[t].mount_point)
                  ELSE mounted
    /\ SetInstall(t, [installs[t] EXCEPT
           !.log = IF installs[t].mount_point # None THEN Append(@, "unmount") ELSE @,
           !.ret = IF installs[t].escaping THEN "raise" ELSE @,
           !.pc = IF installs[t].escaping THEN "except" ELSE "finally"])
    /\ UNCHANGED << lo_present, install_lo_button, libreoffice_status, pending_checks >>
    /\ InstallOnly

\* The user ejects the disk image while the installer is at work.
UserEjects ==
    /\ \E m \in mounted :
          /\ installs[m.image].pc \in { "check_mount", "find_app", "copy" }
          /\ mounted' = { n \in mounted : n.image # m.image }
    /\ UNCHANGED << lo_present, installs, install_lo_button,
                    libreoffice_status, pending_checks >>
    /\ InstallOnly

\* _install_libreoffice_thread: except Exception
Install_Except(t) ==
    /\ installs[t].pc = "except"
    /\ SetInstall(t, [installs[t] EXCEPT
           !.pc = "finally", !.log = Append(@, "install_unexpected_error")])
    /\ UNCHANGED << lo_present, mounted, install_lo_button, libreoffice_status,
                    pending_checks >>
    /\ InstallOnly

\* _install_libreoffice_thread: finally: self.check_dependencies(), which
\* starts the thread of the attempt's status check; the install thread ends.
Install_Finally(t) ==
    /\ installs[t].pc = "finally"
    /\ SetInstall(t, [installs[t] EXCEPT !.pc = "check",
                                         !.phases = Append(@, "check")])
    /\ UNCHANGED << lo_present, mounted, install_lo_button, libreoffice_status,
                    pending_checks >>
    /\ InstallOnly

\* check() inside check_dependencies, on the thread that the finally block
\* of attempt t started.
Install_Check(t) ==
    /\ installs[t].pc = "check"
    /\ IF check_libreoffice(lo_present)
       THEN libreoffice_status' = "installed" /\ install_lo_button' = "disabled"
       ELSE libreoffice_status' = "missing" /\ install_lo_button' = "normal"
    /\ SetInstall(t, [installs[t] EXCEPT !.pc = "done"])
    /\ UNCHANGED << lo_present, mounted, pending_checks >>
    /\ InstallOnly

\* No install thread has been started and the dependency check of
\* __init__ has reported.
InitInstallQuiet ==
    /\ machine = DefaultMachine(system)
    /\ lo_present = TRUE
    /\ mounted = {}
    /\ installs = [t \in InstallThreads |-> NoInstall]
    /\ install_lo_button = "disabled"
    /\ libreoffice_status = "installed"
    /\ pending_checks = 0

InitGuiState_NoSettings ==
    /\ input_files = <<>>
    /\ output_directory = ""
    /\ add_watermark = TRUE
    /\ convert_button = "normal"
    /\ progress_running = FALSE
    /\ after_queue = <<>>
    /\ worker = IdleWorker
    /\ calls = <<>>
    /\ outcomes = <<>>
    /\ list_touched = FALSE
    /\ ui_events = 0
    /\ messagebox = "none"

\* The same, with no settings.json to load.
InitGuiState ==
    /\ InitGuiState_NoSettings
    /\ watermark_history = <<>>
    /\ settings_file = None

\* The program after OfficeToPDFGUI.__init__, on any platform, with the
\* candidate files on disk.
InitBatch ==
    /\ InitWatermarkState
    /\ InitGuiState
    /\ pdf_libs = TRUE
    /\ font_registered = TRUE
    /\ system \in Systems
    /\ comtypes_installed \in IF system = "Windows" THEN BOOLEAN ELSE { FALSE }
    /\ InitInstallQuiet
    /\ conversion_method = IF system = "Windows" THEN "auto" ELSE "libreoffice"
    /\ watermark_text = << "W" >>
    /\ watermark_opacity = 1
    /\ watermark_size = Unit
    /\ watermark_rotation = 30
    /\ fs = WriteFile(WriteFile(WriteFile(<< >>, FileA, OfficeDoc), FileB, OfficeDoc),
                      FileC, PdfDoc(<< Page(2 * Unit - 1, 3 * Unit - 1) >>))

NextBatch ==
    \/ AddFilePaths
    \/ ClearFiles
    \/ SelectOutputDir
    \/ SelectMethod
    \/ ToggleWatermark
    \/ StartProcessing
    \/ RunAfterCallback
    \/ Worker_Begin
    \/ Worker_NextFile
    \/ Worker_Comtypes
    \/ Worker_LibreOffice
    \/ Worker_Post
    \/ Worker_AddWatermark
    \/ Worker_WatermarkReturn
    \/ Worker_Summary
    \/ Worker_Except
    \/ Worker_Finally

SpecBatch == InitBatch /\ [][NextBatch]_vars

\* A step of the worker thread of a batch run.
WorkerStep ==
    \/ Worker_Begin
    \/ Worker_NextFile
    \/ Worker_Comtypes
    \/ Worker_LibreOffice
    \/ Worker_Post
    \/ Worker_AddWatermark
    \/ Worker_WatermarkReturn
    \/ Worker_Summary
    \/ Worker_Except
    \/ Worker_Finally

\* The batch pipeline with its threads scheduled: the worker thread is run
\* until it ends, every call it makes (the office applications, soffice,
\* the file system) coming back with a result or with an exception, and the
\* main loop of the foreground thread runs the callbacks queued by after().
SpecBatchFair ==
    /\ InitBatch
    /\ [][NextBatch]_vars
    /\ WF_vars(WorkerStep)
    /\ WF_vars(RunAfterCallback)

\* ------------------------------------------ add_watermark called directly
\* The source documents: every sequence of at most MaxPages pages.
RECURSIVE PageSeqs(_)
PageSeqs(n) ==
    IF n = 0 THEN { <<>> }
    ELSE PageSeqs(n - 1) \cup
         { Append(ps, Page(sz[1], sz[2])) : ps \in { q \in PageSeqs(n - 1) : Len(q) = n - 1 },
                                            sz \in PageSizes }

SourceDocs == { PdfDoc(ps) : ps \in PageSeqs(MaxPages) }

SourcePath == MkPath("out", <<"a">>, ".pdf")
MissingPath == MkPath("out", <<"missing">>, ".pdf")
OutputPath == MkPath("out", <<"a", "_watermarked">>, ".pdf")

\* A stale output of an earlier run.
OldOutput == PdfDoc(<< Page(1, 1) >>)

InitWatermark ==
    /\ InitWatermarkState
    /\ InitGuiState
    /\ system = "Linux"
    /\ comtypes_installed = FALSE
    /\ InitInstallQuiet
    /\ conversion_method = "libreoffice"
    /\ watermark_text = << "W" >>
    /\ watermark_opacity = 1
    /\ watermark_size = Unit
    /\ watermark_rotation = 30
    /\ pdf_libs \in BOOLEAN
    /\ font_registered \in BOOLEAN
    /\ \E d \in SourceDocs :
          \/ fs = WriteFile(<< >>, SourcePath, d)
          \/ fs = WriteFile(WriteFile(<< >>, SourcePath, d), OutputPath, OldOutput)

\* A caller applies a watermark to the source document.
Apply ==
    /\ wm_pc \in {"idle", "returned"}
    /\ wm_calls < MaxCalls
    /\ \E p \in {SourcePath, MissingPath}, t \in Texts, o \in Opacities,
          f \in FontSizes, r \in Rotations :
          CallAddWatermark(p, t, OutputPath, o, f, r)
    /\ log' = << >>
    /\ UNCHANGED << fs, temp_files, pdf_libs, font_registered,
                    watermark_canvas_path, pdf_writer, wm_result >>
    /\ UNCHANGED << gui_vars, worker_vars, platform_vars, install_vars >>

NextWatermark == Apply \/ AddWatermarkStep

SpecWatermark == InitWatermark /\ [][NextWatermark]_vars

\* ------------------------------------------ the settings and their history
\* The histories settings.json may hold at startup: every list of at most
\* MaxLoaded entries over two texts, a full list and an overlong one.
RECURSIVE ListsUpTo(_, _)
ListsUpTo(S, n) ==
    IF n = 0 THEN { << >> }
    ELSE ListsUpTo(S, n - 1) \cup
         { Append(l, x) : l \in { m \in ListsUpTo(S, n - 1) : Len(m) = n - 1 }, x \in S }

LoadedHistories ==
    ListsUpTo({ << "A" >>, << "B" >> }, MaxLoaded) \cup
    { << << "1" >>, << "2" >>, << "3" >>, << "4" >>, << "5" >> >>,
      << << "1" >>, << "2" >>, << "3" >>, << "4" >>, << "5" >>, << "6" >> >> }

\* The program after OfficeToPDFGUI.__init__: settings.json is absent, or
\* holds a history and the last text.
InitSettings ==
    /\ InitWatermarkState
    /\ InitGuiState_NoSettings
    /\ pdf_libs = TRUE
    /\ font_registered = TRUE
    /\ system = "Linux"
    /\ comtypes_installed = FALSE
    /\ InitInstallQuiet
    /\ conversion_method = "libreoffice"
    /\ watermark_opacity = 1
    /\ watermark_size = Unit
    /\ watermark_rotation = 30
    /\ fs = << >>
    /\ \/ /\ settings_file = None
          /\ watermark_history = << >>
          /\ watermark_text = << "W" >>
       \/ \E h \in LoadedHistories, t \in { << "A" >>, << "W" >> } :
             /\ settings_file = [ last_watermark_text |-> t,
                                  opacity |-> 1, size |-> Unit, rotation |-> 30,
                                  watermark_history |-> h ]
             /\ watermark_history = h
             /\ watermark_text = t

NextSettings == SetWatermarkText \/ SaveSettingsCall

SpecSettings == InitSettings /\ [][NextSettings]_vars

\* ------------------------------------------ the file list and its handlers
\* What a user can offer: the files above, a text file, a PDF whose
\* extension is in capitals.
FileD == MkPath("tmp", << "notes" >>, ".txt")
FileE == MkPath("in", << "e" >>, ".PDF")

\* The lists a file dialog or a drop may hand over: up to MaxOffered paths,
\* in any order.
OfferedLists == ListsUpTo({ FileA, FileC, FileD, FileE }, MaxOffered)

\* add_files: the dialog offers every file ("*.*"), and a cancelled dialog
\* calls nothing.
AddFiles ==
    /\ ui_events < MaxUiEvents
    /\ \E files \in OfferedLists \ { << >> } :
          AddFilePathsWith(files, HandlerLog)

\* add_folder: the files of the folder that match one of the five patterns.
AddFolder ==
    /\ ui_events < MaxUiEvents
    /\ \E found \in { l \in OfferedLists \ { << >> } :
                         \A k \in 1..Len(l) :
                            l[k].ext \in { ".pptx", ".ppt", ".pdf", ".doc", ".docx" } } :
          AddFilePathsWith(found, HandlerLog)

\* _handle_drop: the drop is logged, then its paths are offered.
HandleDrop ==
    /\ ui_events < MaxUiEvents
    /\ \E dropped \in OfferedLists :
          AddFilePathsWith(dropped, Append(HandlerLog, "drop_detected"))

\* The program after OfficeToPDFGUI.__init__ with those files on disk.
InitFileList ==
    /\ InitWatermarkState
    /\ InitGuiState
    /\ pdf_libs = TRUE
    /\ font_registered = TRUE
    /\ system = "Linux"
    /\ comtypes_installed = FALSE
    /\ InitInstallQuiet
    /\ conversion_method = "libreoffice"
    /\ watermark_text = << "W" >>
    /\ watermark_opacity = 1
    /\ watermark_size = Unit
    /\ watermark_rotation = 30
    /\ fs = WriteFile(WriteFile(WriteFile(WriteFile(<< >>, FileA, OfficeDoc),
                                          FileC, PdfDoc(<< Page(3 * Unit, 2 * Unit) >>)),
                                FileD, [kind |-> "text"]),
                      FileE, PdfDoc(<< Page(3 * Unit, 2 * Unit) >>))

NextFileList ==
    \/ AddFiles
    \/ AddFolder
    \/ HandleDrop
    \/ ClearFiles
    \/ SelectOutputDir

SpecFileList == InitFileList /\ [][NextFileList]_vars

\* ------------------------------------------ the installer at work
\* The program after OfficeToPDFGUI.__init__ on any platform and machine,
\* with or without LibreOffice: the first dependency check is under way.
InitInstall ==
    /\ InitWatermarkState
    /\ InitGuiState
    /\ pdf_libs = TRUE
    /\ font_registered = TRUE
    /\ system \in Systems
    /\ machine \in Machines
    /\ comtypes_installed = FALSE
    /\ conversion_method = IF system = "Windows" THEN "auto" ELSE "libreoffice"
    /\ watermark_text = << "W" >>
    /\ watermark_opacity = 1
    /\ watermark_size = Unit
    /\ watermark_rotation = 30
    /\ fs = << >>
    /\ lo_present \in BOOLEAN
    /\ mounted = {}
    /\ installs = [t \in InstallThreads |-> NoInstall]
    /\ install_lo_button = "normal"
    /\ libreoffice_status = "unknown"
    /\ pending_checks = 1

NextInstall ==
    \/ InstallClick
    \/ RefreshClick
    \/ CheckThread
    \/ UserEjects
    \/ \E t \in InstallThreads : Install_ResolveUrl(t)
    \/ \E t \in InstallThreads : Install_Download(t)
    \/ \E t \in InstallThreads : Install_Windows(t)
    \/ \E t \in InstallThreads : Mac_Attach(t)
    \/ \E t \in InstallThreads : Mac_CheckMount(t)
    \/ \E t \in InstallThreads : Mac_FindApp(t)
    \/ \E t \in InstallThreads : Mac_Copy(t)
    \/ \E t \in InstallThreads : Mac_Except(t)
    \/ \E t \in InstallThreads : Mac_Finally(t)
    \/ \E t \in InstallThreads : Install_Except(t)
    \/ \E t \in InstallThreads : Install_Finally(t)
    \/ \E t \in InstallThreads : Install_Check(t)

SpecInstall == InitInstall /\ [][NextInstall]_vars

\* A step of the install thread t or of the check thread it starts.
InstallThreadStep(t) ==
    \/ Install_ResolveUrl(t)
    \/ Install_Download(t)
    \/ Install_Windows(t)
    \/ Mac_Attach(t)
    \/ Mac_CheckMount(t)
    \/ Mac_FindApp(t)
    \/ Mac_Copy(t)
    \/ Mac_Except(t)
    \/ Mac_Finally(t)
    \/ Install_Except(t)
    \/ Install_Finally(t)
    \/ Install_Check(t)

\* The installer with its threads scheduled: a started thread is run until
\* it ends, every call it makes (urlretrieve, msiexec, hdiutil, osascript)
\* coming back, with a result or with an exception.
SpecInstallFair ==
    /\ InitInstall
    /\ [][NextInstall]_vars
    /\ \A t \in InstallThreads : WF_vars(InstallThreadStep(t))

\* =================================================================== claims
\* --------------------------------------------- batch conversion (C1 - C4)
\* The file in hand is an office document whose conversion is over.
ConversionOver ==
    /\ worker.pc \notin { "idle", "begin", "comtypes", "libreoffice" }
    /\ IF worker.input_path = None THEN FALSE ELSE IsOfficeFile(worker.input_path)

\* A backend invocation failed: it did not return success and left no
\* output file.
InvocationFailed(c) == c.ret = "False" \/ (c.ret = "raise" /\ ~c.file_exists)

\* C1: under 'auto' on Windows, when the native (comtypes) conversion of a
\* file fails, the headless (LibreOffice) backend is invoked exactly once
\* for that file afterwards, and there is never a third invocation.
C1_AutoFallbackOnce ==
    /\ Len(calls) <= 2
    /\ Len(calls) = 2 =>
          /\ calls[1].backend = "comtypes"
          /\ InvocationFailed(calls[1])
          /\ calls[2].backend = "libreoffice"
    /\ ( /\ ConversionOver
         /\ worker.method = "auto"
         /\ system = "Windows"
         /\ IF calls # <<>> THEN InvocationFailed(calls[1]) ELSE FALSE ) =>
          /\ Len(calls) = 2
          /\ calls[1].backend = "comtypes"
          /\ calls[2].backend = "libreoffice"

\* What the pipeline does guarantee: a native conversion that returns False
\* under 'auto' is followed by exactly one headless invocation, and no file
\* sees more than two invocations.
FallbackAfterFalseReturn ==
    /\ Len(calls) <= 2
    /\ Len(calls) = 2 =>
          /\ worker.method = "auto"
          /\ system = "Windows"
          /\ calls[1].backend = "comtypes"
          /\ calls[1].ret = "False"
          /\ calls[2].backend = "libreoffice"
    /\ ( /\ ConversionOver
         /\ worker.method = "auto"
         /\ system = "Windows"
         /\ IF calls # <<>> THEN calls[1].ret = "False" ELSE FALSE ) =>
          /\ Len(calls) = 2
          /\ calls[2].backend = "libreoffice"

\* C2: with method 'comtypes' only the native backend is invoked for a file,
\* with 'libreoffice' only the headless one, and under 'auto' on a platform
\* other than Windows the headless one directly; in each case exactly once
\* per office file, whether it fails or not.
C2_NamedBackendOnly ==
    LET named == IF worker.method = "comtypes" THEN "comtypes" ELSE "libreoffice"
        single_backend ==
            \/ worker.method \in { "comtypes", "libreoffice" }
            \/ worker.method = "auto" /\ system # "Windows"
    IN  /\ single_backend =>
              /\ \A k \in 1..Len(calls) : calls[k].backend = named
              /\ Len(calls) <= 1
              /\ ConversionOver => Len(calls) = 1
        /\ \A sys \in Systems \ { "Windows" } : ~use_comtypes("auto", sys)

\* A file failed under 'comtypes' and was not retried.
C2_Witness ==
    /\ worker.pc = "loop"
    /\ worker.method = "comtypes"
    /\ Len(calls) = 1
    /\ IF Len(calls) = 1
       THEN calls[1].backend = "comtypes" /\ calls[1].ret = "False"
       ELSE FALSE
    /\ "conversion_failed" \in Elements(log)

\* C3: a conversion attempt counts as successful only if the backend
\* reported success and <outdir>/<stem>.pdf exists afterwards; success
\* reported without the file is handled like a failure: the fallback under
\* 'auto', the failure diagnostic, and the file is not counted.
C3_SuccessNeedsOutputFile ==
    ( ConversionOver /\ calls # <<>> /\ worker.pc # "except" ) =>
        LET last == calls[Len(calls)]
            without_file(c) == c.ret = "True" /\ ~c.file_exists
        IN  /\ worker.conversion_success => ~without_file(last)
            /\ ( without_file(calls[1]) /\ calls[1].backend = "comtypes"
                 /\ worker.method = "auto" ) => Len(calls) = 2
            /\ ( without_file(last) /\ worker.pc = "loop" ) =>
                  "conversion_failed" \in Elements(log)

\* The number of files of the run that came out well.
RECURSIVE CountOk(_)
CountOk(seq) ==
    IF seq = <<>> THEN 0
    ELSE (IF Head(seq).result = "ok" THEN 1 ELSE 0) + CountOk(Tail(seq))

\* C4: whatever files of the list fail (backend failure, automation error,
\* missing output, watermarking or per-file I/O error), every other file is
\* still processed, the run reaches its summary, and the reported success
\* count is the number of files that did not fail.  Stated for a run whose
\* output directory could be made and whose list was left alone.
C4_BatchIsolation ==
    ( worker.pc = "finally" /\ worker.loop_entered /\ ~list_touched ) =>
        /\ "summary" \in Elements(log)
        /\ Len(outcomes) = worker.total_files
        /\ worker.success_count = CountOk(outcomes)

\* ------------------------------------------------ add_watermark (C5 - C9)
\* The source document of the current call, as it was when the call began.
SourceIsPdf == IsPdf(wm_fs0, wm_args.pdf_path)
SourcePages == wm_fs0[wm_args.pdf_path].pages

\* A valid WatermarkSpec: non-empty text, opacity in (0,1], fontSize > 0.
ValidSpec ==
    /\ wm_args.watermark_text # <<>>
    /\ wm_args.opacity \in 1..Unit
    /\ wm_args.font_size > 0

\* The call ran in a working environment: the libraries and the font are
\* there and no I/O operation raised.
NoEnvironmentFailure == pdf_libs /\ font_registered /\ ~wm_io_fault

\* Page i of the output is page i of the source with one more overlay.
IsMergeOf(out_page, src_page) ==
    /\ out_page.mediabox = src_page.mediabox
    /\ Len(out_page.marks) = Len(src_page.marks) + 1
    /\ SubSeq(out_page.marks, 1, Len(src_page.marks)) = src_page.marks

\* C5: for every valid WatermarkSpec and every source PDF with N >= 1 pages,
\* add_watermark succeeds and writes an output document with exactly N
\* pages, the i-th being the i-th source page merged with the overlay.
C5_ValidSpecSucceeds ==
    ( /\ wm_pc = "returned"
      /\ NoEnvironmentFailure
      /\ ValidSpec
      /\ SourceIsPdf ) =>
        ( Len(SourcePages) >= 1 =>
            /\ wm_result = TRUE
            /\ IsPdf(fs, wm_args.output_path)
            /\ Len(fs[wm_args.output_path].pages) = Len(SourcePages)
            /\ \A i \in 1..Len(SourcePages) :
                  IsMergeOf(fs[wm_args.output_path].pages[i], SourcePages[i]) )

\* The overlay a page of the output received in this call.
OverlayOf(out_page) == out_page.marks[Len(out_page.marks)]

\* C6: when the pages of the source have different geometries, the overlay
\* merged onto each page (its page size and its tile grid) is derived from
\* that page's own width and height.
C6_OverlayPerPageGeometry ==
    ( wm_pc = "returned" /\ wm_result = TRUE ) =>
        \A i \in 1..Len(fs[wm_args.output_path].pages) :
            LET page == fs[wm_args.output_path].pages[i]
                w    == page.mediabox[3]
                h    == page.mediabox[4]
            IN  /\ OverlayOf(page).pagesize = <<w, h>>
                /\ \A x \in { OverlayOf(page).xs[k] : k \in 1..Len(OverlayOf(page).xs) } :
                      -((2 * w) \div Unit) <= x /\ x < (2 * w) \div Unit
                /\ \A y \in { OverlayOf(page).ys[k] : k \in 1..Len(OverlayOf(page).ys) } :
                      -((2 * h) \div Unit) <= y /\ y < (2 * h) \div Unit

\* C7: add_watermark on a source document with zero pages returns failure
\* with the empty-document diagnostic, and no file is created or modified
\* at the output path.
C7_EmptyDocumentFails ==
    ( wm_pc = "returned" /\ SourceIsPdf ) =>
        ( SourcePages = <<>> =>
            /\ wm_result = FALSE
            /\ Exists(fs, wm_args.output_path) = Exists(wm_fs0, wm_args.output_path)
            /\ Exists(fs, wm_args.output_path) =>
                  fs[wm_args.output_path] = wm_fs0[wm_args.output_path]
            /\ NoEnvironmentFailure => log = << "pdf_empty" >> )

C7_Witness ==
    /\ wm_pc = "returned"
    /\ SourceIsPdf
    /\ IF SourceIsPdf THEN SourcePages = <<>> ELSE FALSE
    /\ log = << "pdf_empty" >>
    /\ Exists(wm_fs0, wm_args.output_path)

\* C8: once a call of add_watermark has ended, on whatever exit path, the
\* temporary overlay file it created no longer exists.
C8_OverlayFileRemoved ==
    wm_pc = "returned" =>
        /\ ~Exists(temp_files, TempName(wm_calls))
        /\ watermark_canvas_path # None => ~Exists(temp_files, watermark_canvas_path)

\* The call created its overlay file and then failed.
C8_Witness ==
    /\ wm_pc = "returned"
    /\ watermark_canvas_path # None
    /\ wm_result = FALSE

\* The overlay rendered by the current call, once c.save() has written it.
Rendered == wm_pc = "merge"
RenderedOverlay == temp_files[watermark_canvas_path]

\* C9 as stated: the grid has at least (4W)/(1.5*Tw) columns and at least
\* (4H)/(5*F) rows.  With W = w/Unit, H = h/Unit, F = f/Unit and
\* Tw = t/Unit^2:  cols * 3t >= 8 * w * Unit  and  rows * 5f >= 4h.
C9_TilingCoverage ==
    Rendered =>
        LET w == RenderedOverlay.pagesize[1]
            h == RenderedOverlay.pagesize[2]
            f == wm_args.font_size
            t == f * SumAdvance(wm_args.watermark_text)
        IN  /\ Len(RenderedOverlay.xs) * 3 * t >= 8 * w * Unit
            /\ Len(RenderedOverlay.ys) * 5 * f >= 4 * h

\* C9 amended: the bounds of the grid are the truncated int(2W) and int(2H),
\* so the grid has at least 2*int(2W)/(1.5*Tw) columns and at least
\* 2*int(2H)/(5*F) rows:  cols * 3t >= 4 * Unit^2 * int(2W)  and
\* rows * 5f >= 2 * Unit * int(2H).  The anchors start at the negative bound
\* and are spaced by the truncated strides.
C9_TilingCoverageTruncated ==
    Rendered =>
        LET w  == RenderedOverlay.pagesize[1]
            h  == RenderedOverlay.pagesize[2]
            f  == wm_args.font_size
            t  == f * SumAdvance(wm_args.watermark_text)
            xs == RenderedOverlay.xs
            ys == RenderedOverlay.ys
        IN  /\ Len(xs) * 3 * t >= 4 * Unit * Unit * ((2 * w) \div Unit)
            /\ Len(ys) * 5 * f >= 2 * Unit * ((2 * h) \div Unit)
            /\ xs # <<>> => xs[1] = -((2 * w) \div Unit)
            /\ ys # <<>> => ys[1] = -((2 * h) \div Unit)
            /\ \A k \in 1..(Len(xs) - 1) :
                  xs[k + 1] - xs[k] = (3 * t) \div (2 * Unit * Unit)
            /\ \A k \in 1..(Len(ys) - 1) :
                  ys[k + 1] - ys[k] = (5 * f) \div Unit

\* A grid is drawn for a page whose doubled width is not a whole number.
C9_Witness ==
    /\ Rendered
    /\ IF Rendered
       THEN /\ Len(RenderedOverlay.xs) > 1
            /\ Len(RenderedOverlay.ys) > 1
            /\ (2 * RenderedOverlay.pagesize[1]) % Unit # 0
       ELSE FALSE

\* ------------------------------------------------ macOS install (C10)
\* The attempt is past install_libreoffice_macos: the function has returned
\* or has let an exception through.
MacInstallOver(t) == installs[t].pc \in { "except", "finally", "check", "done" }

InsideMacInstall(t) ==
    installs[t].pc \in { "check_mount", "find_app", "copy", "mac_except",
                         "mac_finally" }

\* C10: once a macOS install attempt has left the installer, by return or
\* by exception, no volume of the disk image it mounted is still mounted;
\* so when an attempt mounts its image while no other attempt is inside the
\* installer, no volume of an earlier attempt is mounted.
C10_MountDetached ==
    /\ \A t \in InstallThreads :
          MacInstallOver(t) => \A m \in mounted : m.image # t
    /\ \A t \in InstallThreads :
          ( installs[t].pc = "attach"
            /\ \A u \in InstallThreads \ {t} : ~InsideMacInstall(u) ) =>
              mounted = {}

\* A first attempt mounted the image, failed after that and is over; the
\* second attempt is about to mount its image.
C10_Witness ==
    /\ installs[1].pc = "done"
    /\ installs[1].mount_point # None
    /\ installs[1].ret \in { "False", "raise" }
    /\ "unmount" \in Elements(installs[1].log)
    /\ installs[2].pc = "attach"

\* ---------------------------------------------- install attempts (C11 - C13)
\* The phase sequences an attempt may have gone through.
PhaseOrders ==
    { << >>,
      << "resolve" >>,
      << "resolve", "check" >>,
      << "resolve", "download" >>,
      << "resolve", "download", "check" >>,
      << "resolve", "download", "install" >>,
      << "resolve", "download", "install", "check" >> }

\* C11: within one install attempt the phases occur only in the order
\* resolve URL, download, platform install, status re-check, each at most
\* once; a download has a resolved URL behind it, the platform installer a
\* download that reported success; an attempt whose URL resolution or
\* download failed never reaches an install step and repeats nothing.
C11_InstallPhaseOrder ==
    \A t \in InstallThreads :
       LET a == installs[t]
           said == Elements(a.log)
           at_installer == a.pc \in { "msiexec", "attach", "check_mount", "find_app",
                                      "copy", "mac_except", "mac_finally" }
       IN  /\ a.phases \in PhaseOrders
           /\ ( "download" \in Elements(a.phases) \/ a.pc = "download" ) =>
                 a.url # None
           /\ ( "install" \in Elements(a.phases) \/ at_installer ) =>
                 /\ "download_done" \in said
                 /\ "download_failed" \notin said
           /\ ( "install_unsupported" \in said \/ "download_failed" \in said ) =>
                 /\ "install" \notin Elements(a.phases)
                 /\ ~at_installer
                 /\ Len(a.phases) <= 3
           /\ a.pc \in { "check", "done" } => a.phases[Len(a.phases)] = "check"

\* One attempt has ended after its download failed, without an install
\* step; the next one has gone through all four phases and installed.
C11_Witness ==
    /\ installs[1].pc = "done"
    /\ installs[1].phases = << "resolve", "download", "check" >>
    /\ "download_failed" \in Elements(installs[1].log)
    /\ installs[2].pc = "done"
    /\ installs[2].phases = << "resolve", "download", "install", "check" >>
    /\ installs[2].ret = "True"

\* C12: every install attempt, whatever its outcome, eventually has its
\* status check performed, and the state that check reports is what
\* check_libreoffice finds at that moment, whatever the installer returned.
C12_RecheckIsSoleTruth ==
    /\ \A t \in InstallThreads :
          (installs[t].pc # "unstarted") ~> (installs[t].pc = "done")
    /\ [][ \A t \in InstallThreads :
              ( installs[t].pc = "check" /\ installs'[t].pc = "done" ) =>
                 /\ libreoffice_status' =
                       IF lo_present THEN "installed" ELSE "missing"
                 /\ install_lo_button' =
                       IF lo_present THEN "disabled" ELSE "normal" ]_vars
    /\ [][ libreoffice_status' # libreoffice_status =>
              \/ pending_checks' < pending_checks
              \/ \E t \in InstallThreads :
                    installs[t].pc = "check" /\ installs'[t].pc = "done" ]_vars

\* An attempt whose installer returned False has had its check, and the
\* check reports LibreOffice installed (another attempt installed it).
C12_Witness ==
    /\ installs[1].pc = "done"
    /\ installs[1].ret = "False"
    /\ libreoffice_status = "installed"
    /\ installs[2].pc = "done"
    /\ installs[2].ret = "True"

\* The (platform, architecture) pairs that have a download: Windows on a
\* machine whose name ends in 64, macOS on arm64 and on x86_64.
MappedPair(sys, mach) ==
    \/ sys = "Windows" /\ mach \in { << "AMD", "64" >>, << "arm", "64" >>,
                                    << "x86_", "64" >>, << "aarch", "64" >> }
    \/ sys = "Darwin" /\ mach \in { << "arm", "64" >>, << "x86_", "64" >> }

\* C13: get_libreoffice_download_url returns a non-empty URL and logs
\* nothing for every mapped (platform, architecture) pair; for every other
\* pair it returns None and logs exactly one message.  This holds of the
\* function on every pair and of every attempt that has resolved its URL.
C13_DownloadUrlMapping ==
    /\ \A sys \in Systems, mach \in Machines :
          LET r == get_libreoffice_download_url(sys, mach)
          IN  IF MappedPair(sys, mach)
              THEN r.url # None /\ r.url.url # "" /\ r.log = << >>
              ELSE r.url = None /\ Len(r.log) = 1
    /\ \A t \in InstallThreads :
          "resolve" \in Elements(installs[t].phases) =>
             IF MappedPair(system, machine)
             THEN /\ installs[t].url # None
                  /\ "install_unsupported" \notin Elements(installs[t].log)
             ELSE /\ installs[t].url = None
                  /\ installs[t].log = << "install_unsupported" >>

\* On 32-bit Windows an attempt has asked for the URL, got None and ended
\* with its status check.
C13_Witness ==
    /\ system = "Windows"
    /\ machine = << "x86" >>
    /\ installs[1].pc = "done"
    /\ installs[1].url = None
    /\ installs[1].log = << "install_unsupported" >>

\* ------------------------------------------------ batch runs (C14 - C16)
\* A run is in flight: its worker is at work, or the callback that hands the
\* trigger back is still waiting for the foreground thread.
RunInFlight == WorkerActive \/ "ready" \in Elements(after_queue)

\* C14: at most one batch run is active at any time.  While a run is in
\* flight the start trigger is disabled and at most one hand-back callback
\* is queued, and a worker is started only when no run is in flight.
C14_SingleRun ==
    /\ [] ( RunInFlight => convert_button = "disabled" )
    /\ [] ( Cardinality({ k \in 1..Len(after_queue) : after_queue[k] = "ready" })
               + (IF WorkerActive THEN 1 ELSE 0) <= 1 )
    /\ [][ ( worker'.pc = "begin" /\ worker.pc # "begin" ) => ~RunInFlight ]_vars

\* A second run is at work after the first one was handed back and saved
\* the settings.
C14_Witness ==
    /\ settings_file # None
    /\ worker.pc = "post"
    /\ convert_button = "disabled"

\* C15: every started batch run eventually restores the ready state
\* (progress indicator stopped, start trigger enabled), also when an
\* exception escapes inside the run; the worker thread never ends without
\* having queued the callback that restores it.
C15_RunRestoresReadyState ==
    /\ (worker.pc = "begin") ~> (convert_button = "normal" /\ ~progress_running)
    /\ (worker.pc = "except") ~> (convert_button = "normal" /\ ~progress_running)
    /\ [][ ( WorkerActive /\ ~WorkerActive' ) =>
              ( after_queue' # << >> /\ after_queue'[Len(after_queue')] = "ready" ) ]_vars

\* A run has ended in the handler of the escaping exception and the ready
\* state is restored.
C15_Witness ==
    /\ log = << "severe_error" >>
    /\ ~WorkerActive
    /\ after_queue = << >>
    /\ convert_button = "normal"
    /\ ~progress_running

\* What a batch run acts on: the worker, the backend invocations, the
\* add_watermark machine, the files, the trigger and the callback queue.
ProcessingState ==
    << worker, calls, outcomes, wm_pc, wm_calls, fs, temp_files, convert_button,
       progress_running, after_queue, settings_file >>

\* C16: a start with an empty file list or without output directory is
\* rejected before any processing: no worker is started, no backend or
\* watermark operation invoked, no file or directory created, and the
\* trigger stays enabled.
C16_ConfigurationErrorRejected ==
    [][ ( StartProcessing /\ (input_files = << >> \/ output_directory = "") ) =>
           /\ UNCHANGED ProcessingState
           /\ ~WorkerActive'
           /\ convert_button' = "normal" ]_vars

\* A start was rejected for want of an output directory, with files in the
\* list, and the program is as before the start.
C16_Witness ==
    /\ input_files # << >>
    /\ output_directory = ""
    /\ messagebox = "warn_no_output"
    /\ ~WorkerActive
    /\ convert_button = "normal"
    /\ fs = WriteFile(WriteFile(WriteFile(<< >>, FileA, OfficeDoc), FileB, OfficeDoc),
                      FileC, PdfDoc(<< Page(2 * Unit - 1, 3 * Unit - 1) >>))

\* --------------------------------------- files and settings (C17 - C19)
\* C17: watermarking never writes to, truncates or deletes its source PDF.
\* From the call of add_watermark in a batch run to its return, with success
\* or with failure, the file at the source path is what it was when the
\* call began, and the output path differs from the source path.
C17_SourceUntouched ==
    ( worker.pc = "watermarking" /\ wm_pc # "idle" ) =>
        /\ wm_args.output_path # wm_args.pdf_path
        /\ Exists(wm_fs0, wm_args.pdf_path)
        /\ Exists(fs, wm_args.pdf_path)
        /\ fs[wm_args.pdf_path] = wm_fs0[wm_args.pdf_path]

\* add_watermark has failed on the PDF input of a run after it had begun
\* to write its output file.
C17_Witness ==
    /\ worker.pc = "watermarking"
    /\ wm_pc = "returned"
    /\ ~wm_result
    /\ wm_args.pdf_path = FileC
    /\ Exists(fs, wm_args.output_path)
    /\ fs[wm_args.output_path] = [kind |-> "partial"]

\* A history has no entry twice.
NoDuplicates(h) == \A i, j \in 1..Len(h) : h[i] = h[j] => i = j

\* C18: every settings object written by a save has a text history of at
\* most 5 entries, without duplicates, most recent first, whose first entry
\* is the saved last watermark text; after any sequence of saves, whatever
\* history was loaded at startup.
C18_HistoryBoundedDeduplicated ==
    [][ ( SaveSettingsCall /\ Strip(watermark_text) # << >> ) =>
           LET h == settings_file'.watermark_history
           IN  /\ Len(h) <= 5
               /\ Len(h) >= 1
               /\ h[1] = settings_file'.last_watermark_text
               /\ h[1] = Strip(watermark_text)
               /\ NoDuplicates(h)
               /\ ListRemove(h, h[1]) =
                     SubSeq(ListRemove(watermark_history, h[1]), 1, Len(h) - 1) ]_vars

\* What does hold: a history without duplicates is without duplicates and
\* within the limit after every save that writes.
HistoryStaysDeduplicated ==
    [][ ( SaveSettingsCall /\ Strip(watermark_text) # << >>
          /\ NoDuplicates(watermark_history) ) =>
           /\ NoDuplicates(watermark_history')
           /\ Len(watermark_history') <= HistoryLimit ]_vars

\* The extensions of a processing batch.
BatchExtensions == { ".pptx", ".ppt", ".pdf", ".docx", ".doc", ".PDF", ".DOCX" }

\* C19: after any sequence of add-files, add-folder, drop and clear
\* operations the file list holds only paths with one of the five
\* extensions, and offering paths with other extensions changes neither
\* the list nor the output directory and logs nothing.
C19_FileTypeAdmission ==
    /\ [] ( \A k \in 1..Len(input_files) : input_files[k].ext \in BatchExtensions )
    /\ [][ \A files \in OfferedLists \ { << >> } :
              ( AddFilePathsWith(files, << >>)
                /\ \A k \in 1..Len(files) : files[k].ext \notin BatchExtensions ) =>
                  /\ input_files' = input_files
                  /\ output_directory' = output_directory
                  /\ log' = << >> ]_vars

\* What does hold: the list holds only paths of the five extensions, and
\* paths of other extensions never enter it.
OnlyAdmittedInList ==
    /\ \A k \in 1..Len(input_files) : input_files[k].ext \in BatchExtensions
    /\ FileD \notin Elements(input_files)

\* ------------------------------------------- the native backend (C20)
\* C20: every invocation of the native backend that created an application
\* instance has quit it, and has closed the document it opened, when the
\* invocation ends, whether it returns or an automation call raises.
C20_ApplicationReleased ==
    \A k \in 1..Len(calls) :
       calls[k].backend = "comtypes" =>
          /\ ~calls[k].app_running
          /\ ~calls[k].doc_open

\* What does hold: an invocation that returns, True or False, has closed
\* the document and quit the application.
ReleasedWhenReturning ==
    \A k \in 1..Len(calls) :
       ( calls[k].backend = "comtypes" /\ calls[k].ret # "raise" ) =>
          /\ ~calls[k].app_running
          /\ ~calls[k].doc_open

\* ------------------------------------------------ the backends (C21 - C23)
\* C21: convert_with_comtypes never lets an exception through to its
\* caller: every invocation of the native backend ends with a return value,
\* and a failure with False and a logged diagnostic.
C21_ComtypesNeverRaises ==
    \A k \in 1..Len(calls) :
       calls[k].backend = "comtypes" => calls[k].ret \in { "True", "False" }

\* What does hold: when the release calls of the finally block (Close, Quit)
\* do not raise, every failure at creation, open or export gives False and
\* a diagnostic, on every platform, with and without the automation library.
CaughtInsideTry ==
    \A sys \in Systems, has \in BOOLEAN, input \in { FileA, FileB },
       com \in { c \in ComOutcomes : c.close = "ok" /\ c.quit = "ok" } :
       LET r == convert_with_comtypes(sys, has, fs, input,
                                      MkPath("out", input.stem, ".pdf"), com)
           failed == \/ sys # "Windows" \/ ~has
                     \/ com.create = "raise" \/ com.open = "raise" \/ com.save = "raise"
       IN  /\ r.ret \in { "True", "False" }
           /\ failed => ( r.ret = "False"
                          /\ Elements(r.log) \cap { "comtypes_windows_only",
                                 "comtypes_missing", "word_error",
                                 "powerpoint_error" } # {} )

\* C22: a LibreOffice conversion never propagates an exception, and it
\* returns True exactly when the engine process exited with status 0 and
\* <outdir>/<stem>.pdf exists after it.
C22_LibreOfficeTrueIffConverted ==
    \A k \in 1..Len(calls) :
       calls[k].backend = "libreoffice" =>
          /\ calls[k].ret \in { "True", "False" }
          /\ calls[k].ret = "True" <=>
                 (calls[k].exit_status = [ code |-> 0 ] /\ calls[k].file_exists)

\* What does hold of it: it never propagates an exception, and a True comes
\* only after an exit with status 0 that left the file in place.
LibreOfficeTrueOnlyAfterCleanExit ==
    \A k \in 1..Len(calls) :
       calls[k].backend = "libreoffice" =>
          /\ calls[k].ret \in { "True", "False" }
          /\ calls[k].ret = "True" =>
                 (calls[k].exit_status = [ code |-> 0 ] /\ calls[k].file_exists)

\* C23: whenever the engine process is started, the arguments it receives
\* are exactly --headless --convert-to pdf --outdir <dir> <input>, the
\* directory and the input being one argument each.
C23_EngineReceivesArguments ==
    \A k \in 1..Len(calls) :
       (calls[k].backend = "libreoffice" /\ calls[k].exit_status # None) =>
          calls[k].args = EngineArguments(worker.output_dir, worker.input_path)

\* What does hold of it: a command that goes through the shell as a string
\* starts the installed engine, whose path holds a space on Windows, with
\* exactly these arguments.
QuotedCommandKeepsArguments ==
    \A sys \in { "Windows", "Darwin" }, p \in { FileA, FileB } :
       LET soffice_cmd == find_libreoffice_path(sys, TRUE)
           run == ShellRun(sys, EngineCommand(sys, soffice_cmd, "out", p))
       IN  /\ run.program = [ engine |-> sys ]
           /\ run.args = EngineArguments("out", p)

\* ------------------------------------------- the run and its list (C24, C25)
\* C24: from the start of a run until its worker has finished, the file
\* list is not changed: no user action adds to it or clears it, so the
\* worker iterates over the list as it was when the run started.
C24_ListFrozenDuringRun ==
    [][ WorkerActive => input_files' = input_files ]_vars

\* What does hold of it: the worker itself leaves the list as it is.
WorkerLeavesListAlone ==
    [][ WorkerStep => input_files' = input_files ]_vars

\* C25: the files of a run are processed strictly one after the other. A
\* watermark operation in progress is the one step the worker is at, so no
\* backend invocation runs beside it; backend invocations are made one at a
\* time, by the worker, with no watermark operation in progress; and the
\* worker takes file i+1 only when the outcomes of the i files before it
\* are determined and nothing is in progress.
C25_StrictlySequential ==
    /\ [] ( wm_pc # "idle" => worker.pc = "watermarking" )
    /\ [] ( (WorkerActive /\ worker.loop_entered) =>
               Len(outcomes) \in { worker.i - 1, worker.i } )
    /\ [][ (Worker_NextFile /\ worker'.i = worker.i + 1) =>
              (Len(outcomes) = worker.i /\ wm_pc = "idle") ]_vars
    /\ [][ calls' # calls /\ calls' # << >> =>
              /\ calls' = Append(calls, calls'[Len(calls')])
              /\ worker.pc \in { "comtypes", "libreoffice" }
              /\ wm_pc = "idle" ]_vars

\* The second file of a run is being watermarked, the outcome of the first
\* being known.
C25_Witness ==
    /\ worker.i = 2
    /\ Len(outcomes) = 1
    /\ worker.pc = "watermarking"
    /\ wm_pc \in { "open", "render", "merge", "write" }

\* ------------------------------------------------ background threads (C26)
\* A step taken on a background thread: a dependency check, an installation
\* or a batch run.
BackgroundStep ==
    \/ CheckThread
    \/ \E t \in InstallThreads : InstallThreadStep(t)
    \/ WorkerStep

\* C26: a background thread never changes what the user interface shows
\* (the status label, the install button, the start trigger, the progress
\* bar) by itself; it only enqueues callbacks for the foreground thread.
C26_BackgroundThreadsOnlyEnqueue ==
    [][ BackgroundStep =>
           UNCHANGED << libreoffice_status, install_lo_button, convert_button,
                        progress_running >> ]_vars

\* What does hold of it: the installation proper and the batch run leave
\* the widgets alone; the run hands the trigger back by a callback.
RunAndInstallOnlyEnqueue ==
    [][ ( WorkerStep
          \/ \E t \in InstallThreads : (InstallThreadStep(t) /\ installs[t].pc # "check") ) =>
           UNCHANGED << libreoffice_status, install_lo_button, convert_button,
                        progress_running >> ]_vars

\* ------------------------------------------------ one installation (C29)
\* The installation attempts in flight: started, and the status check that
\* ends them not yet run.
InstallsInFlight == { t \in InstallThreads : installs[t].pc \notin { "unstarted", "done" } }

\* C29: at most one installation attempt is in flight at any time.
C29_SingleInstallInFlight == Cardinality(InstallsInFlight) <= 1

\* What does hold of it: an attempt is started only from an enabled install
\* button, which the start disables.
InstallStartDisablesButton ==
    [][ Cardinality(Started') > Cardinality(Started) =>
           (install_lo_button = "normal" /\ install_lo_button' = "disabled") ]_vars

\* ------------------------------------------------ output paths (C27, C28)
\* The file at path p is left as it is by the step: not created, not
\* removed, its content not replaced.
Untouched(p) ==
    /\ Exists(fs, p) <=> Exists(fs', p)
    /\ Exists(fs, p) => fs'[p] = fs[p]

\* C27: a batch run never creates, overwrites or modifies a file at a path
\* that is one of the input files of the batch.
C27_InputsNeverWritten ==
    [][ WorkerStep => \A p \in Elements(input_files) : Untouched(p) ]_vars

\* What does hold of it: while a file is being processed, the file at its
\* own path is left as it is.
OwnInputNeverWritten ==
    [][ (WorkerStep /\ worker.input_path # None) => Untouched(worker.input_path) ]_vars

\* The files of the run counted so far.
Counted == { k \in 1..Len(outcomes) : outcomes[k].result = "ok" }

\* C28: within a run, two distinct inputs never have the same output path,
\* so the number of distinct result files is the success count.
C28_OutputsDistinct ==
    /\ \A j, k \in Counted :
          outcomes[j].input # outcomes[k].input =>
             outcomes[j].output # outcomes[k].output
    /\ Cardinality({ outcomes[k].output : k \in Counted }) = worker.success_count

\* What does hold of it: two counted inputs have the same output path only
\* if they have the same stem.
SameOutputOnlyForSameStem ==
    \A j, k \in Counted :
       outcomes[j].output = outcomes[k].output =>
          outcomes[j].input.stem = outcomes[k].input.stem

\* ------------------------------------------------ the success count (C30)
\* C30: at the end of a run the success count lies between 0 and the total
\* the run reports it against, it is the number of files whose final output
\* the run produced, and no input is counted twice.
C30_SuccessCountSound ==
    ( worker.pc = "finally" /\ worker.loop_entered ) =>
        /\ worker.success_count \in 0..worker.total_files
        /\ worker.success_count = CountOk(outcomes)
        /\ \A j, k \in Counted : outcomes[j].input = outcomes[k].input => j = k

\* What does hold of it: throughout a run the count is the number of files
\* counted so far, each counted once and at most as many as the worker has
\* taken from the list, and a file is counted in a step that leaves its
\* final output in the output directory.
CountMatchesOutcomes ==
    /\ [] ( WorkerActive =>
               /\ worker.success_count = CountOk(outcomes)
               /\ worker.success_count \in 0..worker.i )
    /\ [][ (WorkerStep /\ worker'.success_count = worker.success_count + 1) =>
              LET o == outcomes'[Len(outcomes')]
              IN  /\ o.result = "ok"
                  /\ o.input = worker.input_path
                  /\ o.output.dir = worker.output_dir
                  /\ Exists(fs', o.output) ]_vars

\* ------------------------------------------------ stored settings (C31)
\* The save requests waiting in the after queue.
PendingSaves(queue) == { k \in 1..Len(queue) : queue[k] = "save_settings" }

\* C31: a batch run persists the watermark settings only if watermarking
\* was enabled when the run started (the value _perform_processing reads
\* as its first statement) and at least one file succeeded.  The stored
\* settings and the text history change only when a save request is run;
\* a save request is queued only by the summary of a run that read
\* watermarking as enabled and has counted a file, and it is run before
\* that run hands the trigger back; a run with no success, a run that read
\* watermarking as disabled and a start rejected for a configuration error
\* queue no request and leave settings and history as they are.
C31_SettingsPersistedOnlyAfterSuccess ==
    /\ [][ (settings_file' # settings_file \/ watermark_history' # watermark_history) =>
              (RunAfterCallback /\ Head(after_queue) = "save_settings") ]_vars
    /\ [][ Cardinality(PendingSaves(after_queue')) > Cardinality(PendingSaves(after_queue)) =>
              /\ worker.pc = "summary"
              /\ worker.should_save_settings
              /\ worker.success_count > 0
              /\ CountOk(outcomes) > 0 ]_vars
    /\ [][ Worker_Begin => worker'.should_save_settings = add_watermark ]_vars
    /\ [][ (worker.pc \notin { "idle", "begin" } /\ worker'.pc # "idle") =>
              worker'.should_save_settings = worker.should_save_settings ]_vars
    /\ [][ (StartProcessing /\ ConfigurationError(input_files, output_directory)) =>
              UNCHANGED << settings_file, watermark_history, after_queue, worker >> ]_vars
    /\ [] ( PendingSaves(after_queue) # {} => RunInFlight )
    /\ [] ( Cardinality(PendingSaves(after_queue)) <= 1 )

\* The settings have been stored at the request of a run that read
\* watermarking as enabled and counted a file, before the run has handed
\* the trigger back.
C31_Witness ==
    /\ settings_file # None
    /\ watermark_history = << << "W" >> >>
    /\ worker.pc = "finally"
    /\ worker.should_save_settings
    /\ worker.success_count > 0
    /\ after_queue = << >>
====
